---- MODULE Spec2Model ----
(***************************************************************************)
(* Route discovery and route mutation of the Next.js route navigator       *)
(* (src/src/extension.ts, lines 1-1357).                                   *)
(*                                                                         *)
(* Text is modelled lexed: a string is a sequence of tokens, a token being *)
(* a punctuation character ("/", ":", "[", "]", "(", ")", "_", ".", "...") *)
(* or a word.  split, join, startsWith, endsWith, includes, path.join and  *)
(* path.relative are computed over those sequences as the code computes    *)
(* them over characters.  A file is the sequence of its lines; a line is a *)
(* record of what the code's regular expressions and brace counters read.  *)
(***************************************************************************)
EXTENDS Integers, Sequences, FiniteSets, TLC

VARIABLES
    dirs,           \* the directories that exist, as absolute paths
    files,          \* <<directory, file name>> -> content (sequence of lines)
    routes,         \* NextJsRoutesProvider.routes: the forest of the last scan
    pendingDeletes, \* deleteRoute calls suspended at their confirmation dialog
    last,           \* the last command run and what it reported to the user
    deleted,        \* files deleted by deleteRoute since the last Create or Rename
    ops,            \* number of mutation commands started so far
    watch,          \* the change notifier: its timeouts, and what it has seen and done
    scanned,        \* the tree (dirs, files) that the last finished scan read
    provider        \* NextJsRoutesProvider: appDirPath, the routing root in use

vars == <<dirs, files, routes, pendingDeletes, last, deleted, ops, watch, scanned, provider>>

(***************************************************************************)
(* Bounds of the model.                                                    *)
(***************************************************************************)
MaxOps == 2         \* mutation commands per behaviour
MaxLines == 12      \* a file grows by Create or merge only up to this length
MaxPending == 1     \* confirmation dialogs of deleteRoute open at a time
MaxEvents == 3      \* file system events the watchers deliver per behaviour

(***************************************************************************)
(* Strings                                                                 *)
(***************************************************************************)
HTTP_METHODS == <<"GET", "POST", "PUT", "DELETE", "PATCH", "HEAD", "OPTIONS">>

MethodSet == {HTTP_METHODS[i] : i \in 1..Len(HTTP_METHODS)}

startsWith(s, p) == Len(s) >= Len(p) /\ SubSeq(s, 1, Len(p)) = p

endsWith(s, p) == Len(s) >= Len(p) /\ SubSeq(s, Len(s) - Len(p) + 1, Len(s)) = p

includes(s, p) == \E i \in 0..(Len(s) - Len(p)) : SubSeq(s, i + 1, i + Len(p)) = p

RECURSIVE splitFrom(_, _, _, _)
splitFrom(s, sep, i, cur) ==
    IF i > Len(s) THEN <<cur>>
    ELSE IF s[i] = sep THEN <<cur>> \o splitFrom(s, sep, i + 1, <<>>)
    ELSE splitFrom(s, sep, i + 1, Append(cur, s[i]))

\* String.prototype.split(sep): "" splits to one empty part
split(s, sep) == splitFrom(s, sep, 1, <<>>)

\* Array.prototype.filter(Boolean) on strings: drops the empty ones
filterBoolean(parts) == SelectSeq(parts, LAMBDA p : p # <<>>)

RECURSIVE join(_, _)
join(parts, sep) ==
    IF Len(parts) = 0 THEN <<>>
    ELSE IF Len(parts) = 1 THEN parts[1]
    ELSE parts[1] \o <<sep>> \o join(Tail(parts), sep)

\* String.prototype.toUpperCase on the words the model writes in lower case
upperTok(t) ==
    CASE t = "get" -> "GET"
      [] t = "post" -> "POST"
      [] t = "foo" -> "FOO"
      [] OTHER -> t

toUpperCase(s) == [i \in 1..Len(s) |-> upperTok(s[i])]

\* number of occurrences of token t: s.split(t).length - 1
occurrences(s, t) == Len(split(s, t)) - 1

(***************************************************************************)
(* Paths: an absolute path is the sequence of its names below the          *)
(* workspace folder; a name is a string.                                   *)
(***************************************************************************)
WorkspaceRoot == <<>>

AppDir == << <<"app">> >>

dirname(p) == IF Len(p) = 0 THEN p ELSE SubSeq(p, 1, Len(p) - 1)

basename(p) == p[Len(p)]

RECURSIVE normalizeOnto(_, _)
normalizeOnto(base, segs) ==
    IF Len(segs) = 0 THEN base
    ELSE LET s == Head(segs)
         IN  IF s = <<>> \/ s = <<".">> THEN normalizeOnto(base, Tail(segs))
             ELSE IF s = <<"..">> THEN normalizeOnto(dirname(base), Tail(segs))
             ELSE normalizeOnto(Append(base, s), Tail(segs))

\* path.join(base, rel): concatenates and normalises ("", "." and ".." segments)
pathJoin(base, rel) == normalizeOnto(base, split(rel, "/"))

\* the path as the string the code compares with startsWith
pathString(p) == <<"/", "w">> \o (IF Len(p) = 0 THEN <<>> ELSE <<"/">> \o join(p, "/"))

RECURSIVE commonPrefixLen(_, _)
commonPrefixLen(a, b) ==
    IF Len(a) = 0 \/ Len(b) = 0 \/ Head(a) # Head(b) THEN 0
    ELSE 1 + commonPrefixLen(Tail(a), Tail(b))

\* path.relative(from, to), as a string
pathRelative(from, to) ==
    LET c == commonPrefixLen(from, to)
        ups == [i \in 1..(Len(from) - c) |-> <<"..">>]
    IN  join(ups \o SubSeq(to, c + 1, Len(to)), "/")

(***************************************************************************)
(* Order of directory entries: fs.readdirSync returns the names sorted by  *)
(* their bytes; tokOrd ranks the tokens of the model in that order.        *)
(***************************************************************************)
tokOrd(t) ==
    CASE t = "(" -> 1 [] t = ")" -> 2 [] t = "." -> 3 [] t = ".." -> 4
      [] t = "..." -> 5 [] t = "[" -> 6 [] t = "]" -> 7 [] t = "_" -> 8
      [] t = "a" -> 9 [] t = "b" -> 10 [] t = "c" -> 11 [] t = "g" -> 12
      [] t = "h" -> 13 [] t = "id" -> 14 [] t = "js" -> 15
      [] t = "node_modules" -> 16 [] t = "p" -> 17 [] t = "page" -> 18
      [] t = "route" -> 19 [] t = "s" -> 20 [] t = "ts" -> 21
      [] t = "tsx" -> 22 [] t = "x" -> 23
      [] OTHER -> 24

RECURSIVE nameLess(_, _)
nameLess(a, b) ==
    IF Len(b) = 0 THEN FALSE
    ELSE IF Len(a) = 0 THEN TRUE
    ELSE IF Head(a) # Head(b) THEN tokOrd(Head(a)) < tokOrd(Head(b))
    ELSE nameLess(Tail(a), Tail(b))

leastName(S) == CHOOSE x \in S : \A y \in S \ {x} : nameLess(x, y)

RECURSIVE sortNames(_)

sortedFrom(m, S) == <<m>> \o sortNames(S \ {m})

sortNames(S) == IF S = {} THEN <<>> ELSE sortedFrom(leastName(S), S)

minOf(S) == CHOOSE i \in S : \A j \in S : i <= j

maxOf(S) == CHOOSE i \in S : \A j \in S : j <= i

(***************************************************************************)
(* The file system                                                         *)
(***************************************************************************)
childDirs(D, d) == {basename(p) : p \in {q \in D : Len(q) = Len(d) + 1 /\ dirname(q) = d}}

fileNames(F, d) == {k[2] : k \in {j \in DOMAIN F : j[1] = d}}

direntsOf(names, dirNames) ==
    [i \in 1..Len(names) |-> [name |-> names[i], isDirectory |-> names[i] \in dirNames]]

\* fs.readdirSync(d, {withFileTypes: true})
readdir(D, F, d) == direntsOf(sortNames(childDirs(D, d) \cup fileNames(F, d)), childDirs(D, d))

\* fs.mkdirSync(p, {recursive: true})
mkdirRecursive(D, p) == D \cup {SubSeq(p, 1, k) : k \in 0..Len(p)}

\* fs.writeFileSync / fs.appendFileSync / fs.copyFileSync result
writeFile(F, key, content) ==
    [k \in DOMAIN F \cup {key} |-> IF k = key THEN content ELSE F[k]]

\* an unlink that leaves the file in place
unlinkNothing(F, key) == F

\* fs.unlinkSync
unlink(F, key) == [k \in DOMAIN F \ {key} |-> F[k]]

isEmptyDir(D, F, d) == childDirs(D, d) = {} /\ fileNames(F, d) = {}

SystemDirs == { <<"node_modules">>, <<".", "next">>, <<".", "git">> }

RouteExts == {"js", "ts", "jsx", "tsx"}

\* /^route\.(js|ts|jsx|tsx)$/
isRouteFile(name) ==
    Len(name) = 3 /\ name[1] = "route" /\ name[2] = "." /\ name[3] \in RouteExts

isGroup(name) == startsWith(name, <<"(">>) /\ endsWith(name, <<")">>)

isPrivate(name) == startsWith(name, <<"_">>)

(***************************************************************************)
(* File content.  A line records what the code reads of it:                *)
(*   k     "decl" (a declaration of a function), "import" or "text"        *)
(*   form  of a declaration: "const" (export const M =), "asyncconst"      *)
(*         (export async const M =), "function" (export function M),       *)
(*         "asyncfunction" (export async function M) or "local" (not       *)
(*         exported); of an import: "from" or "bare"                       *)
(*   m     the declared name as written (a string), or the imported module; *)
(*         a line written by hand can hold several declarations of the     *)
(*         same form, and m is then the sequence of their names            *)
(*   x     the rest of the text                                            *)
(*   open, close   the numbers of "{" and of "}" on the line               *)
(*   arrow, semi   whether the line holds "=>", ";"                        *)
(***************************************************************************)
Line(k, form, m, x, open, close, arrow, semi) ==
    [k |-> k, form |-> form, m |-> m, x |-> x, open |-> open, close |-> close,
     arrow |-> arrow, semi |-> semi]

BlankLine == Line("text", "", <<>>, "", 0, 0, FALSE, FALSE)

\* import { NextRequest, NextResponse } from 'next/server';
NextImport == Line("import", "from", <<"next/server">>, "", 1, 1, FALSE, TRUE)

\* a pattern without the flag i: the name is matched in upper case only
exportsExactCase(line, method) ==
    /\ line.k = "decl"
    /\ line.form \in {"const", "asyncconst", "function", "asyncfunction"}
    /\ \E n \in 1..Len(line.m) : line.m[n] = method

\* the line matches export\s+(async\s+)?((const\s+M\s*=)|(function\s+M\s*\()), flag i:
\* some declaration of the line has the name M, in any case
exportsMethod(line, method) ==
    /\ line.k = "decl"
    /\ line.form \in {"const", "asyncconst", "function", "asyncfunction"}
    /\ \E n \in 1..Len(line.m) : upperTok(line.m[n]) = method

\* generateRouteHandler, as the lines of the generated text
generateRouteHandler(method, fileExt) ==
    << Line("decl", "const", method,
            IF fileExt = "ts" THEN "(request: NextRequest)" ELSE "(request)",
            1, 0, TRUE, FALSE),
       Line("text", "", <<>>, "return NextResponse.json", 1, 1, FALSE, TRUE),
       Line("text", "", <<>>, "}", 0, 1, FALSE, TRUE) >>

\* generateRouteFile
generateRouteFile(method, fileExt) ==
    (IF fileExt = "ts" THEN <<NextImport, BlankLine>> ELSE <<>>)
        \o generateRouteHandler(method, fileExt)

\* content + "\n\n" + text, both as line sequences
appendText(content, textLines) == content \o <<BlankLine>> \o textLines

\* findFiles(appDirPath, /\.(ts|tsx)$/).length > 0: some file below the root, outside
\* the system directories, is a TypeScript file
hasTsFile(F, appDirPath) ==
    \E key \in DOMAIN F :
        /\ startsWith(key[1], appDirPath)
        /\ \A i \in 1..Len(key[1]) : key[1][i] \notin SystemDirs
        /\ key[2][Len(key[2])] \in {"ts", "tsx"}

detectProjectFileType(F, appDirPath) == IF hasTsFile(F, appDirPath) THEN "ts" ELSE "js"

(***************************************************************************)
(* Handler extractor and route tree scanner                                *)
(***************************************************************************)
firstMethodIn(hits) == IF hits = {} THEN "" ELSE HTTP_METHODS[minOf(hits)]

\* the first method of HTTP_METHODS whose pattern matches the line, or ""
firstMethodOn(line) ==
    firstMethodIn({i \in 1..Len(HTTP_METHODS) : exportsMethod(line, HTTP_METHODS[i])})

handlerAt(method, i) ==
    IF method = "" THEN <<>> ELSE << [method |-> method, lineNumber |-> i - 1] >>

RECURSIVE handlersFrom(_, _)
handlersFrom(content, i) ==
    IF i > Len(content) THEN <<>>
    ELSE handlerAt(firstMethodOn(content[i]), i) \o handlersFrom(content, i + 1)

scanRouteHandlerMethods(content) == handlersFrom(content, 1)

RECURSIVE concatAll(_)
concatAll(ss) == IF Len(ss) = 0 THEN <<>> ELSE Head(ss) \o concatAll(Tail(ss))

\* lines 1233-1235
withSlash(routePath) ==
    IF routePath # <<>> /\ ~endsWith(routePath, <<"/">>) THEN routePath \o <<"/">>
    ELSE routePath

\* the segment appended for the directory `name` (lines 1238-1257)
segmentName(name) ==
    IF startsWith(name, <<"[", "...">>) /\ endsWith(name, <<"]">>)
    THEN <<"[", "...">> \o SubSeq(name, 3, Len(name) - 1) \o <<"]">>
    ELSE IF startsWith(name, <<"[", "[", "...">>) /\ endsWith(name, <<"]", "]">>)
    THEN <<"[", "[", "...">> \o SubSeq(name, 4, Len(name) - 2) \o <<"]", "]">>
    ELSE name

\* a walk step that takes the Group directory's name into the path
extendThroughGroups(routePath, name) == withSlash(routePath) \o segmentName(name)

\* the route path after entering the directory `name` (lines 1224-1260)
extendRoutePath(routePath, name) ==
    IF isGroup(name) THEN routePath ELSE withSlash(routePath) \o segmentName(name)

routeTypeOf(displayPath) ==
    IF includes(displayPath, <<"[">>)
    THEN (IF includes(displayPath, <<"[", "...">>) THEN "catchAll" ELSE "dynamic")
    ELSE "static"

\* lines 1272-1301
routeNodeOf(filePath, displayPath, methods) ==
    IF Len(methods) > 0
    THEN << [label |-> displayPath, filePath |-> filePath, methods |-> methods,
             routeType |-> routeTypeOf(displayPath)] >>
    ELSE <<>>

\* lines 1266-1270: routeFile is the last route file among the entries
ownRoute(F, dirPath, routePath, entries, routeIdx) ==
    IF routeIdx = {} THEN <<>>
    ELSE routeNodeOf(<<dirPath, entries[maxOf(routeIdx)].name>>,
                     IF routePath = <<>> THEN <<"/">> ELSE routePath,
                     scanRouteHandlerMethods(F[<<dirPath, entries[maxOf(routeIdx)].name>>]))

\* a walk that skips no directory
skipsNothing(name) == FALSE

skippedDir(name) == name \in SystemDirs \/ isPrivate(name)

RECURSIVE findRouteFiles(_, _, _, _)

walkEntries(D, F, dirPath, routePath, entries) ==
    concatAll([i \in 1..Len(entries) |->
                  IF ~entries[i].isDirectory \/ skippedDir(entries[i].name) THEN <<>>
                  ELSE findRouteFiles(D, F, Append(dirPath, entries[i].name),
                                      extendRoutePath(routePath, entries[i].name))])
    \o ownRoute(F, dirPath, routePath, entries,
                {i \in 1..Len(entries) :
                    ~entries[i].isDirectory /\ isRouteFile(entries[i].name)})

findRouteFiles(D, F, dirPath, routePath) ==
    IF dirPath \notin D THEN <<>>
    ELSE walkEntries(D, F, dirPath, routePath, readdir(D, F, dirPath))

(***************************************************************************)
(* a.label.localeCompare(b.label): the collation order of the tokens       *)
(* (punctuation before letters, "_" "." "(" ")" "[" "]" "/" in that order) *)
(***************************************************************************)
collOrd(t) ==
    CASE t = "_" -> 1 [] t = "." -> 2 [] t = ".." -> 3 [] t = "..." -> 4
      [] t = "(" -> 5 [] t = ")" -> 6 [] t = "[" -> 7 [] t = "]" -> 8
      [] t = "/" -> 9
      [] OTHER -> 10 + tokOrd(t)

compareInt(x, y) == IF x < y THEN -1 ELSE IF x > y THEN 1 ELSE 0

RECURSIVE localeCompare(_, _)

compareTails(c, a, b) == IF c # 0 THEN c ELSE localeCompare(Tail(a), Tail(b))

localeCompare(a, b) ==
    IF Len(a) = 0 /\ Len(b) = 0 THEN 0
    ELSE IF Len(a) = 0 THEN -1
    ELSE IF Len(b) = 0 THEN 1
    ELSE compareTails(compareInt(collOrd(Head(a)), collOrd(Head(b))), a, b)

\* insertion of a node after every node that is not greater: Array.prototype.sort is stable
RECURSIVE insertSorted(_, _)
insertSorted(sorted, n) ==
    IF Len(sorted) = 0 THEN <<n>>
    ELSE IF localeCompare(Head(sorted).label, n.label) <= 0
    THEN <<Head(sorted)>> \o insertSorted(Tail(sorted), n)
    ELSE <<n>> \o sorted

RECURSIVE sortRoutes(_, _)
sortRoutes(done, rest) ==
    IF Len(rest) = 0 THEN done
    ELSE sortRoutes(insertSorted(done, Head(rest)), Tail(rest))

scanAllRoutes(D, F, appDirPath) ==
    IF appDirPath \notin D THEN <<>>
    ELSE sortRoutes(<<>>, findRouteFiles(D, F, appDirPath, <<>>))

(***************************************************************************)
(* Pruning of empty directories                                            *)
(***************************************************************************)
RECURSIVE cleanupEmptyDirectories(_, _, _, _)
cleanupEmptyDirectories(D, F, dirPath, appDirPath) ==
    IF dirPath = appDirPath \/ ~startsWith(pathString(dirPath), pathString(appDirPath))
    THEN D
    ELSE IF dirPath \notin D THEN D
    ELSE IF ~isEmptyDir(D, F, dirPath) THEN D
    ELSE cleanupEmptyDirectories(D \ {dirPath}, F, dirname(dirPath), appDirPath)

\* lines 284-288: the entry is a directory the walk enters
walkedEntry(e) == e.isDirectory /\ ~skippedDir(e.name)

\* lines 272-276 and 299-306
collected(subs, dirPath, basePath, hasRouteFile) ==
    [all |-> UNION {r.all : r \in subs} \cup (IF dirPath # basePath THEN {dirPath} ELSE {}),
     valid |-> UNION {r.valid : r \in subs}
               \cup (IF hasRouteFile
                     THEN {SubSeq(dirPath, 1, n) : n \in (Len(basePath) + 1)..Len(dirPath)}
                     ELSE {})]

RECURSIVE collectValidDirectories(_, _, _, _)

\* lines 281-297: the entries are walked up to the first route file
collectEntries(D, F, dirPath, basePath, entries, routeIdx) ==
    collected({collectValidDirectories(D, F, Append(dirPath, entries[i].name), basePath) :
                  i \in {j \in 1..(IF routeIdx = {} THEN Len(entries) ELSE minOf(routeIdx)) :
                            walkedEntry(entries[j])}},
              dirPath, basePath, routeIdx # {})

collectIn(D, F, dirPath, basePath, entries) ==
    collectEntries(D, F, dirPath, basePath, entries,
                   {i \in 1..Len(entries) :
                       ~walkedEntry(entries[i]) /\ isRouteFile(entries[i].name)})

collectValidDirectories(D, F, dirPath, basePath) ==
    IF dirPath \notin D THEN [all |-> {}, valid |-> {}]
    ELSE collectIn(D, F, dirPath, basePath, readdir(D, F, dirPath))

\* a removal that does not test whether the directory is empty
removeUntested(D, F, candidates, depth) == D \ candidates

\* lines 316-338: deepest first, a directory that is not valid is removed when empty
RECURSIVE removeOrphans(_, _, _, _)
removeOrphans(D, F, candidates, depth) ==
    IF depth = 0 THEN D
    ELSE removeOrphans(
            D \ {d \in candidates : Len(d) = depth /\ d \in D /\ isEmptyDir(D, F, d)},
            F, candidates, depth - 1)

maxDepth(S) == IF S = {} THEN 0 ELSE maxOf({Len(d) : d \in S})

removeCollected(D, F, c) == removeOrphans(D, F, c.all \ c.valid, maxDepth(c.all))

\* a cleanup that removes every directory below the root
cleanupEverything(D, F, appDirPath) == {p \in D : Len(p) <= Len(appDirPath)}

cleanupOrphanedDirectories(D, F, appDirPath) ==
    IF appDirPath \notin D THEN D
    ELSE removeCollected(D, F, collectValidDirectories(D, F, appDirPath, appDirPath))

(***************************************************************************)
(* mergeRouteFiles                                                         *)
(***************************************************************************)
\* line.trim().startsWith("import ") && line.includes("from ")
isFromImport(line) == line.k = "import" /\ line.form = "from"

\* lines[i].trim().startsWith("import ")
isImport(line) == line.k = "import"

lastIndexIn(idx) == IF idx = {} THEN -1 ELSE maxOf(idx) - 1

\* the index (from 0) of the last import line, or -1
getLastImportIndex(lines) == lastIndexIn({i \in 1..Len(lines) : isImport(lines[i])})

\* the first method of HTTP_METHODS declared anywhere in the code, or ""
getMethodNameFromCode(code) ==
    firstMethodIn({i \in 1..Len(HTTP_METHODS) :
                      \E n \in 1..Len(code) : exportsMethod(code[n], HTTP_METHODS[i])})

hasMethodDefinition(content, methodName) ==
    \E n \in 1..Len(content) : exportsMethod(content[n], methodName)

\* lines 613-619: a one-line arrow function is complete at once
oneLiner(line, count) == count = 0 /\ line.arrow /\ line.semi

\* lines 605-620: the line declares a method; count is the brace count after the line
declState(st, line, count) ==
    [methodsToAdd |-> IF oneLiner(line, count) THEN Append(st.methodsToAdd, <<line>>)
                      ELSE st.methodsToAdd,
     methodContent |-> <<line>>,
     collectingMethod |-> ~oneLiner(line, count),
     braceCount |-> count]

declStep(st, line, isDecl) ==
    IF isDecl THEN declState(st, line, st.braceCount + line.open - line.close) ELSE st

\* lines 623-636: the line is added to the method being collected
collectState(st, line, count) ==
    [methodsToAdd |-> IF count = 0
                      THEN Append(st.methodsToAdd, Append(st.methodContent, line))
                      ELSE st.methodsToAdd,
     methodContent |-> Append(st.methodContent, line),
     collectingMethod |-> count # 0,
     braceCount |-> count]

\* i > 0 in the code's numbering of the lines from 0
collectStep(st, line, i) ==
    IF st.collectingMethod /\ i > 1
    THEN collectState(st, line, st.braceCount + line.open - line.close)
    ELSE st

\* the loop of lines 591-637 from line i (counted from 1) on; st is the loop's state:
\* methodsToAdd, methodContent, collectingMethod, braceCount
RECURSIVE extractMethods(_, _, _)
extractMethods(sourceLines, i, st) ==
    IF i > Len(sourceLines) THEN st.methodsToAdd
    ELSE extractMethods(sourceLines, i + 1,
            collectStep(declStep(st, sourceLines[i], firstMethodOn(sourceLines[i]) # ""),
                        sourceLines[i], i))

\* lines 647-652: targetLines.splice(lastImportIndex + 1, 0, imp), or unshift
spliceImport(lines, imp, at) ==
    IF at >= 0
    THEN SubSeq(lines, 1, at + 1) \o <<imp>> \o SubSeq(lines, at + 2, Len(lines))
    ELSE <<imp>> \o lines

\* lines 642-654: each source import the content does not hold is inserted after the
\* last import of targetLines; st = [lines, content]
RECURSIVE addImports(_, _)

addImportsTo(rest, spliced) == addImports(rest, [lines |-> spliced, content |-> spliced])

addImports(sourceImports, st) ==
    IF Len(sourceImports) = 0 THEN st.content
    ELSE IF \E n \in 1..Len(st.content) : st.content[n] = Head(sourceImports)
    THEN addImports(Tail(sourceImports), st)
    ELSE addImportsTo(Tail(sourceImports),
                      spliceImport(st.lines, Head(sourceImports),
                                   getLastImportIndex(st.lines)))

\* a test that takes every method as missing from the content
lacksAlways(content, methodName) == TRUE

\* line 659
lacksMethod(content, methodName) ==
    methodName # "" /\ ~hasMethodDefinition(content, methodName)

\* lines 657-662
RECURSIVE addMethods(_, _)
addMethods(methodsToAdd, content) ==
    IF Len(methodsToAdd) = 0 THEN content
    ELSE addMethods(Tail(methodsToAdd),
                    IF lacksMethod(content, getMethodNameFromCode(Head(methodsToAdd)))
                    THEN appendText(content, Head(methodsToAdd))
                    ELSE content)

\* the content mergeRouteFiles writes to the target file
mergeRouteFiles(sourceContent, targetContent) ==
    addMethods(extractMethods(sourceContent, 1,
                              [methodsToAdd |-> <<>>, methodContent |-> <<>>,
                               collectingMethod |-> FALSE, braceCount |-> 0]),
               addImports(SelectSeq(sourceContent, isFromImport),
                          [lines |-> targetContent, content |-> targetContent]))

(***************************************************************************)
(* Input validation and parsing                                            *)
(***************************************************************************)
\* a validation that accepts every segment
validateNothing(segments) == ""

\* a refresh that leaves the forest as its first lines do, emptied
rescanCleared(D, F) == [dirs |-> D, routes |-> <<>>]

\* lines 69-82 and 413-426: the message for the first offending segment, or "" (null)
RECURSIVE validateSegments(_)
validateSegments(segments) ==
    IF Len(segments) = 0 THEN ""
    ELSE IF isPrivate(Head(segments)) THEN "private segment"
    ELSE IF occurrences(Head(segments), "[") # occurrences(Head(segments), "]")
    THEN "malformed dynamic segment"
    ELSE validateSegments(Tail(segments))

\* parts[parts.length - 1].toUpperCase() is one of HTTP_METHODS
lastIsMethod(parts) == \E m \in MethodSet : toUpperCase(parts[Len(parts)]) = <<m>>

\* validateInput of createNewRoute
validateCreateInput(value) ==
    IF value = <<>> THEN "empty"
    ELSE IF includes(value, <<":">>) /\ ~lastIsMethod(split(value, ":"))
    THEN "valid methods"
    ELSE validateSegments(filterBoolean(split(value, "/")))

\* validateInput of renameRoute
validateRenameInput(value) ==
    IF value = <<>> THEN "empty"
    ELSE validateSegments(filterBoolean(split(value, "/")))

\* lines 95-101
parsedRoutePath(input) == split(input, ":")[1]

parsedMethod(input) ==
    IF includes(input, <<":">>) THEN toUpperCase(split(input, ":")[2]) ELSE <<"GET">>

\* lines 104-106, 436-440
stripLeadingSlash(routePath) ==
    IF startsWith(routePath, <<"/">>) THEN Tail(routePath) ELSE routePath

(***************************************************************************)
(* renameRoute: the target directory (lines 450-494)                       *)
(***************************************************************************)
getRelativePathFromAppDir(appDirPath, routeDirPath) ==
    pathRelative(appDirPath, dirname(routeDirPath))

getRoutePathDepth(routePath) ==
    IF routePath = <<"/">> THEN 0 ELSE Len(filterBoolean(split(routePath, "/")))

\* lines 473-482: one turn of the loop at index i (counted from 1)
adjustOne(st, segment, i, pathSegments, newPathSegments) ==
    IF isGroup(segment) \/ st.routeSegmentIndex >= Len(pathSegments) THEN st
    ELSE [adjustedSegments |->
             IF st.routeSegmentIndex < Len(newPathSegments)
             THEN [st.adjustedSegments EXCEPT ![i] = newPathSegments[st.routeSegmentIndex + 1]]
             ELSE st.adjustedSegments,
          routeSegmentIndex |-> st.routeSegmentIndex + 1]

\* the for loop of lines 469-483 from index i on;
\* st = [adjustedSegments, routeSegmentIndex]
RECURSIVE adjustSegments(_, _, _, _, _)
adjustSegments(relativeSegments, pathSegments, newPathSegments, i, st) ==
    IF i > Len(relativeSegments) THEN st
    ELSE adjustSegments(relativeSegments, pathSegments, newPathSegments, i + 1,
                        adjustOne(st, relativeSegments[i], i, pathSegments, newPathSegments))

\* lines 486-489: the new segments the loop did not place are appended
appendRest(looped, newPathSegments) ==
    looped.adjustedSegments
        \o SubSeq(newPathSegments, looped.routeSegmentIndex + 1, Len(newPathSegments))

\* lines 465-492
mappedRelative(relativeSegments, pathSegments, newPathSegments) ==
    join(appendRest(adjustSegments(relativeSegments, pathSegments, newPathSegments, 1,
                                   [adjustedSegments |-> relativeSegments,
                                    routeSegmentIndex |-> 0]),
                    newPathSegments),
         "/")

\* lines 459-493
targetDirRelative(relativeSegments, cleanCurrentPath, cleanNewPath) ==
    IF Len(relativeSegments) = getRoutePathDepth(cleanCurrentPath)
    THEN join(split(cleanNewPath, "/"), "/")
    ELSE mappedRelative(relativeSegments, split(cleanCurrentPath, "/"),
                        split(cleanNewPath, "/"))

renameTargetDir(appDirPath, sourceDir, currentPath, input) ==
    pathJoin(appDirPath,
             targetDirRelative(
                 filterBoolean(split(getRelativePathFromAppDir(appDirPath, sourceDir), "/")),
                 stripLeadingSlash(currentPath), stripLeadingSlash(input)))

(***************************************************************************)
(* The command handlers, as functions of the file system: the result is    *)
(* the file system the handler leaves, what it reports, whether it went on *)
(* to run the refreshRoutes command, and the file it worked on.            *)
(***************************************************************************)
SrcAppDir == << <<"src">>, <<"app">> >>

NoKey == << <<>>, <<>> >>

NoNode == [label |-> <<>>, filePath |-> NoKey, methods |-> <<>>, routeType |-> ""]

Result(D, F, outcome, refresh, target) ==
    [dirs |-> D, files |-> F, outcome |-> outcome, refresh |-> refresh, target |-> target]

\* ensureDirectoryExists, and lines 112-114
ensureDirectoryExists(D, dirPath) == IF dirPath \in D THEN D ELSE mkdirRecursive(D, dirPath)

\* content.includes(`export async function ${method}`), line 125
createSeesMethod(content, method) ==
    \E n \in 1..Len(content) :
        /\ content[n].k = "decl"
        /\ content[n].form = "asyncfunction"
        /\ startsWith(content[n].m, method)

routeFileName(fileExtension) == <<"route", ".", fileExtension>>

\* lines 122-138
createInFile(D, F, routeFilePath, method, fileExtension) ==
    IF routeFilePath \in DOMAIN F
    THEN IF createSeesMethod(F[routeFilePath], method)
         THEN Result(D, F, "method already exists", FALSE, routeFilePath)
         ELSE Result(D,
                     writeFile(F, routeFilePath,
                               appendText(F[routeFilePath],
                                          generateRouteHandler(method, fileExtension))),
                     "created", TRUE, routeFilePath)
    ELSE Result(D, writeFile(F, routeFilePath, generateRouteFile(method, fileExtension)),
                "created", TRUE, routeFilePath)

\* lines 109-119
createInDir(D, F, routeDir, method, fileExtension) ==
    createInFile(ensureDirectoryExists(D, routeDir), F,
                 <<routeDir, routeFileName(fileExtension)>>, method, fileExtension)

createNewRoute(D, F, appDirPath, input) ==
    IF validateCreateInput(input) # ""
    THEN Result(D, F, "rejected", FALSE, NoKey)
    ELSE createInDir(D, F, pathJoin(appDirPath, stripLeadingSlash(parsedRoutePath(input))),
                     parsedMethod(input), detectProjectFileType(F, appDirPath))

\* lines 189-197: fs.existsSync(root) && dir.startsWith(root)
isInside(D, dir, root) == root \in D /\ startsWith(pathString(dir), pathString(root))

\* lines 185-203
pruneAfterDelete(D, F, dir) ==
    IF isInside(D, dir, AppDir) THEN cleanupEmptyDirectories(D, F, dir, AppDir)
    ELSE IF isInside(D, dir, SrcAppDir) THEN cleanupEmptyDirectories(D, F, dir, SrcAppDir)
    ELSE D

\* a deleteRoute that takes a file that is gone for deleted and prunes its directory
deleteRegardless(D, F, filePath) ==
    Result(pruneAfterDelete(D, unlink(F, filePath), filePath[1]),
           unlink(F, filePath), "deleted", TRUE, filePath)

\* deleteRoute after the confirmation (lines 177-217)
deleteRouteConfirmed(D, F, filePath) ==
    IF filePath \notin DOMAIN F
    THEN Result(D, F, "failed to delete", FALSE, filePath)
    ELSE Result(pruneAfterDelete(D, unlink(F, filePath), filePath[1]),
                unlink(F, filePath), "deleted", TRUE, filePath)

\* a rename that merges whatever the answer
mergeUnasked(choice) == FALSE

\* confirmation !== "Merge", line 516
mergeDeclined(choice) == choice # "Merge"

\* lines 533-545: the source file is removed and its directory pruned
removeSource(D, F, sourceFilePath, appDirPath, outcome, targetFilePath) ==
    Result(cleanupEmptyDirectories(D, unlink(F, sourceFilePath), sourceFilePath[1],
                                   appDirPath),
           unlink(F, sourceFilePath), outcome, TRUE, targetFilePath)

\* lines 505-531 with a source file that no longer exists: readFileSync or copyFileSync
\* throws after ensureDirectoryExists
renameFailed(D, F, targetFilePath, merging) ==
    Result(IF merging THEN D ELSE ensureDirectoryExists(D, targetFilePath[1]), F,
           "failed to rename", FALSE, targetFilePath)

\* the calls of fs that can throw in lines 524-536, and "none"
Faults == {"none", "mkdirSync", "copyFileSync", "copyFileSync partly", "unlinkSync"}

\* the fault strikes: mkdirSync is called only for a directory that does not exist
faultHits(D, targetFilePath, fault) ==
    \/ fault \in {"copyFileSync", "copyFileSync partly", "unlinkSync"}
    \/ fault = "mkdirSync" /\ targetFilePath[1] \notin D

\* a rename that removes the source file before it copies it
unlinkedFirst(D, F, sourceFilePath, targetFilePath, fault) ==
    Result(D, unlink(F, sourceFilePath), "failed to rename", FALSE, targetFilePath)

\* lines 524-536 and 554-559 when a call of fs throws: mkdirSync, copyFileSync before
\* it wrote the target or after it wrote a part of it, or unlinkSync after the copy
renameFaulted(D, F, sourceFilePath, targetFilePath, fault) ==
    Result(IF fault = "mkdirSync" THEN D ELSE ensureDirectoryExists(D, targetFilePath[1]),
           IF fault = "unlinkSync"
           THEN writeFile(F, targetFilePath, F[sourceFilePath])
           ELSE IF fault = "copyFileSync partly"
           THEN writeFile(F, targetFilePath,
                          SubSeq(F[sourceFilePath], 1, Len(F[sourceFilePath]) - 1))
           ELSE F,
           "failed to rename", FALSE, targetFilePath)

\* lines 505-545
renameOnto(D, F, appDirPath, sourceFilePath, targetFilePath, choice, fault) ==
    IF targetFilePath[1] \in D /\ targetFilePath \in DOMAIN F
    THEN IF mergeDeclined(choice)
         THEN Result(D, F, "merge declined", FALSE, targetFilePath)
         ELSE IF sourceFilePath \notin DOMAIN F
         THEN renameFailed(D, F, targetFilePath, TRUE)
         ELSE removeSource(D,
                           writeFile(F, targetFilePath,
                                     mergeRouteFiles(F[sourceFilePath], F[targetFilePath])),
                           sourceFilePath, appDirPath, "merged", targetFilePath)
    ELSE IF sourceFilePath \notin DOMAIN F
    THEN renameFailed(D, F, targetFilePath, FALSE)
    ELSE IF faultHits(D, targetFilePath, fault)
    THEN renameFaulted(D, F, sourceFilePath, targetFilePath, fault)
    ELSE removeSource(ensureDirectoryExists(D, targetFilePath[1]),
                      writeFile(F, targetFilePath, F[sourceFilePath]),
                      sourceFilePath, appDirPath, "moved", targetFilePath)

\* lines 498-503
renameInto(D, F, appDirPath, sourceFilePath, targetDir, choice, fault) ==
    IF targetDir = sourceFilePath[1]
    THEN Result(D, F, "same location", FALSE, <<targetDir, sourceFilePath[2]>>)
    ELSE renameOnto(D, F, appDirPath, sourceFilePath, <<targetDir, sourceFilePath[2]>>,
                    choice, fault)

\* fault: the call of fs that throws during the copy, "none" when all succeed
renameRoute(D, F, appDirPath, node, input, choice, fault) ==
    IF validateRenameInput(input) # ""
    THEN Result(D, F, "rejected", FALSE, NoKey)
    ELSE IF input = node.label
    THEN Result(D, F, "no change", FALSE, NoKey)
    ELSE renameInto(D, F, appDirPath, node.filePath,
                    renameTargetDir(appDirPath, node.filePath[1], node.label, input),
                    choice, fault)

\* lines 1128-1132: the forest scanned after the orphan cleanup
rescan(D, F) == [dirs |-> D, routes |-> scanAllRoutes(D, F, AppDir)]

\* NextJsRoutesProvider.refresh: the directories and the forest it leaves
refresh(D, F) == rescan(cleanupOrphanedDirectories(D, F, AppDir), F)

(***************************************************************************)
(* The project validator.  package.json is a file of one line, the record  *)
(* of what JSON.parse makes of its text: json is "syntax error" (the parse *)
(* throws), "null" or "object"; dependencies and devDependencies are <<>>  *)
(* (no such member) or <<o>>, o the function from package names to the     *)
(* version strings.                                                        *)
(***************************************************************************)
PackageJson == <<"package", ".", "json">>

Manifest(json, dependencies, devDependencies) ==
    [json |-> json, dependencies |-> dependencies, devDependencies |-> devDependencies]

\* o.next: <<>> is undefined
memberNext(o) == IF "next" \in DOMAIN o THEN <<o["next"]>> ELSE <<>>

\* ToBoolean of a string or undefined: the empty string is falsy like undefined
truthy(v) == v # <<>> /\ v[1] # ""

\* packageJson.dependencies && packageJson.dependencies.next (lines 30-31)
hasNext(member) == member # <<>> /\ truthy(memberNext(member[1]))

\* lines 26-35: JSON.parse throws on a syntax error, the member access throws on null,
\* and the catch returns false
readsNext(packageJson) ==
    IF packageJson.json # "object" THEN FALSE
    ELSE hasNext(packageJson.dependencies) \/ hasNext(packageJson.devDependencies)

isNextJsProject(F, workspacePath) ==
    IF <<workspacePath, PackageJson>> \notin DOMAIN F THEN FALSE
    ELSE readsNext(F[<<workspacePath, PackageJson>>][1])

\* fs.existsSync of a path: a directory or a file
existsSync(D, F, p) == p \in D \/ (Len(p) > 0 /\ <<dirname(p), basename(p)>> \in DOMAIN F)

hasAppDirectory(D, F, workspacePath) ==
    \/ existsSync(D, F, pathJoin(workspacePath, <<"app">>))
    \/ existsSync(D, F, pathJoin(workspacePath, <<"src", "/", "app">>))

isValidNextJsProject(D, F) ==
    isNextJsProject(F, WorkspaceRoot) /\ hasAppDirectory(D, F, WorkspaceRoot)

\* the commands of registerAllCommands: showNextJsProjectRequiredMessage and return,
\* or the handler's result r
guarded(D, F, r) ==
    IF isValidNextJsProject(D, F) THEN r
    ELSE Result(D, F, "project required", FALSE, NoKey)

\* appDirPath before the first findAppDirectory: undefined
NoAppDirPath == <<>>

\* findAppDirectory (lines 1169-1185): "app" first, then "src/app"; the field is
\* assigned when one of them exists and left as it is, at `was`, when none does
findAppDirectory(D, F, was) ==
    IF existsSync(D, F, pathJoin(WorkspaceRoot, <<"app">>))
    THEN pathJoin(WorkspaceRoot, <<"app">>)
    ELSE IF existsSync(D, F, pathJoin(WorkspaceRoot, <<"src", "/", "app">>))
    THEN pathJoin(WorkspaceRoot, <<"src", "/", "app">>)
    ELSE was

\* lines 1128-1130: no cleanup while appDirPath is undefined
cleanupFrom(D, F, root) ==
    IF root = NoAppDirPath THEN D ELSE cleanupOrphanedDirectories(D, F, root)

\* lines 1124 and 1187-1194: the forest is emptied, and scanned when appDirPath is set
scanFrom(D, F, root) == IF root = NoAppDirPath THEN <<>> ELSE scanAllRoutes(D, F, root)

refreshFrom(D, F, root) ==
    [dirs |-> cleanupFrom(D, F, root), routes |-> scanFrom(cleanupFrom(D, F, root), F, root)]

\* NextJsRoutesProvider.refresh (lines 1122-1134) in a workspace of any layout: the
\* routing root is looked up anew; was is appDirPath before the call
refreshProvider(D, F, was) == refreshFrom(D, F, findAppDirectory(D, F, was))

(***************************************************************************)
(* The change notifier (setupFileWatchers).  Time is counted in units of   *)
(* 100 ms.  A pending timeout is a record: id, what setTimeout returned;   *)
(* due, the time left until its callback runs; by, the watcher that set it *)
(* ("app": debouncedRefresh, "git": the handler of gitWatcher).  The       *)
(* callback of every timeout is NextJsRoutesProvider.refresh.              *)
(* The record `watch` holds the notifier's state, timeouts, refreshTimeout *)
(* (0 is undefined) and nextId, and what has happened so far: events, the  *)
(* events delivered; appSeen, whether one came from the routing root;      *)
(* quiet, the time since the last event from the routing root, counted up  *)
(* to Window; debounced, the rescans that timeouts of debouncedRefresh ran *)
(* since that event; burst, the events from the routing root that came     *)
(* with no such rescan between them, that event being the last; rescans,   *)
(* the rescans that any timeout ran since the last event of either         *)
(* watcher; watching, whether activate has run setupFileWatchers; echo,    *)
(* the events for directories removed by refresh itself that the watcher   *)
(* of the routing root has yet to deliver.                                 *)
(***************************************************************************)
Window == 3         \* setTimeout(..., 300) of debouncedRefresh

GitDelay == 5       \* setTimeout(..., 500) of gitWatcher.onDidChange

\* a clearTimeout that cancels nothing
clearNothing(timeouts, id) == timeouts

\* clearTimeout(id): no effect when id is undefined or the timeout has run
clearTimeout(timeouts, id) == SelectSeq(timeouts, LAMBDA t : t.id # id)

\* a setTimeout that schedules nothing
setNothing(timeouts, nextId, delay, by) == timeouts

\* setTimeout(refresh, delay): the timeouts with the new one, whose id is nextId
setTimeout(timeouts, nextId, delay, by) ==
    Append(timeouts, [id |-> nextId, due |-> delay, by |-> by])

\* debouncedRefresh (lines 1005-1011)
debouncedRefresh(w) ==
    [w EXCEPT !.timeouts = setTimeout(clearTimeout(w.timeouts, w.refreshTimeout),
                                      w.nextId, Window, "app"),
              !.refreshTimeout = w.nextId,
              !.nextId = w.nextId + 1]

\* the handler of gitWatcher.onDidChange (lines 1034-1037)
gitChanged(w) ==
    [w EXCEPT !.timeouts = setTimeout(w.timeouts, w.nextId, GitDelay, "git"),
              !.nextId = w.nextId + 1]

\* an event was delivered, by the watcher of the routing root or by the other one
delivered(w, fromApp) ==
    [w EXCEPT !.events = w.events + 1,
              !.appSeen = fromApp \/ w.appSeen,
              !.quiet = IF fromApp THEN 0 ELSE w.quiet,
              !.burst = IF ~fromApp THEN w.burst
                        ELSE IF w.debounced = 0 THEN w.burst + 1 ELSE 1,
              !.debounced = IF fromApp THEN 0 ELSE w.debounced,
              !.rescans = 0]

\* the time passes by one unit
elapsed(w) ==
    [w EXCEPT !.timeouts = [i \in 1..Len(w.timeouts) |->
                               [w.timeouts[i] EXCEPT !.due = w.timeouts[i].due - 1]],
              !.quiet = IF w.quiet < Window THEN w.quiet + 1 ELSE w.quiet]

\* a timeout that is armed again when its callback has run, as one of setInterval
rearmed(w, i) == [w EXCEPT !.timeouts[i].due = Window]

\* the timeout at index i has run its callback
timedOut(w, i) ==
    [w EXCEPT !.timeouts = SubSeq(w.timeouts, 1, i - 1)
                              \o SubSeq(w.timeouts, i + 1, Len(w.timeouts)),
              !.debounced = IF w.timeouts[i].by = "app" THEN w.debounced + 1
                            ELSE w.debounced,
              !.rescans = w.rescans + 1]

\* the notifier as setupFileWatchers leaves it, after the scan of the constructor
WatchStart ==
    [timeouts |-> <<>>, refreshTimeout |-> 0, nextId |-> 1, events |-> 0,
     appSeen |-> FALSE, quiet |-> Window, debounced |-> 0, burst |-> 0, rescans |-> 0,
     watching |-> TRUE, echo |-> 0]

\* getChildren (lines 1140-1148) for the root of the view: the forest, or the one node
\* of the error message when no routing root was found
getChildren(appDirPath, forest) ==
    IF appDirPath = <<>>
    THEN << [label |-> <<"No Next.js App Router project detected">>, filePath |-> NoKey,
             methods |-> <<>>, routeType |-> "error"] >>
    ELSE forest

(***************************************************************************)
(* The project trees the extension is started on, and the user's inputs    *)
(***************************************************************************)
nA == <<"a">>
nB == <<"b">>
nC == <<"c">>
nX == <<"x">>
nG == <<"(", "g", ")">>
nH == <<"(", "h", ")">>
nId == <<"[", "id", "]">>
nPrivate == <<"_", "p">>
nModules == <<"node_modules">>
nCatchAll == <<"[", "...", "s", "]">>
nOptional == <<"[", "[", "...", "s", "]", "]">>
nMalformed == <<"[", "id">>

RouteTs == <<"route", ".", "ts">>
RouteJs == <<"route", ".", "js">>
PageTsx == <<"page", ".", "tsx">>

\* export async function M(request) { ... } over three lines
FunctionHandler(m) ==
    << Line("decl", "asyncfunction", <<m>>, "(request)", 1, 0, FALSE, FALSE),
       Line("text", "", <<>>, "return NextResponse.json", 1, 1, FALSE, TRUE),
       Line("text", "", <<>>, "}", 0, 1, FALSE, FALSE) >>

TreeOf(F) ==
    [dirs |-> UNION {mkdirRecursive({}, k[1]) : k \in DOMAIN F} \cup mkdirRecursive({}, AppDir),
     files |-> F]

WithDirs(tree, extra) ==
    [dirs |-> tree.dirs \cup UNION {mkdirRecursive({}, d) : d \in extra}, files |-> tree.files]

EmptyTree == TreeOf(<<>>)

DeepTree == TreeOf(<<AppDir \o <<nA, nB, nC>>, RouteTs>> :> generateRouteFile(<<"GET">>, "ts"))

GroupTree ==
    TreeOf(<<AppDir \o <<nG, nA>>, RouteTs>> :> generateRouteFile(<<"GET">>, "ts")
           @@ <<AppDir \o <<nG, nH, nB>>, RouteTs>> :> generateRouteFile(<<"POST">>, "ts"))

TsPairTree ==
    TreeOf(<<AppDir \o <<nA>>, RouteTs>> :> generateRouteFile(<<"GET">>, "ts")
           @@ <<AppDir \o <<nB>>, RouteTs>> :> generateRouteFile(<<"POST">>, "ts"))

JsPairTree ==
    TreeOf(<<AppDir \o <<nA>>, RouteJs>> :> generateRouteFile(<<"GET">>, "js")
           @@ <<AppDir \o <<nB>>, RouteJs>> :> FunctionHandler("POST"))

OrphanTree ==
    WithDirs(TreeOf(<<AppDir \o <<nA, nB>>, RouteJs>> :> generateRouteFile(<<"GET">>, "js")
                    @@ <<AppDir \o <<nX>>, PageTsx>> :> <<BlankLine>>
                    @@ <<AppDir \o <<nPrivate, nA>>, RouteJs>> :> FunctionHandler("PUT")),
             {AppDir \o <<nA, nC>>})

\* a handler file with GET and DELETE, as two runs of Create leave it
GetAndDelete ==
    appendText(generateRouteFile(<<"GET">>, "ts"), generateRouteHandler(<<"DELETE">>, "ts"))

\* a file that declares GET without exporting it
LocalOnly == << Line("decl", "local", <<"GET">>, "(request)", 1, 1, FALSE, FALSE) >>

\* directories of every kind of segment, one with a name whose brackets do not close
SegmentTree ==
    TreeOf(<<AppDir \o <<nA, nId>>, RouteTs>> :> GetAndDelete
           @@ <<AppDir \o <<nA, nId, nCatchAll>>, RouteTs>> :> generateRouteFile(<<"GET">>, "ts")
           @@ <<AppDir \o <<nOptional>>, RouteTs>> :> generateRouteFile(<<"POST">>, "ts")
           @@ <<AppDir \o <<nX, nMalformed>>, RouteTs>> :> generateRouteFile(<<"GET">>, "ts"))

\* the trees the change notifier is watched on
WatchedTrees == {SegmentTree, OrphanTree}

\* the handler files that tools outside the extension write and remove, and what they
\* write into them
WatchKeys == {<<AppDir \o <<nB>>, RouteTs>>, <<AppDir \o <<nC, nId>>, RouteTs>>}

WatchContents == {generateRouteFile(<<"GET">>, "ts"), LocalOnly}

InitialTrees == {EmptyTree, DeepTree, GroupTree, TsPairTree, JsPairTree, OrphanTree}

\* a path as the user types it: "/" before every segment
typed(segments) == IF Len(segments) = 0 THEN <<"/">> ELSE <<"/">> \o join(segments, "/")

\* the last one is typed without the "/" in front
PathInputs ==
    {typed(p) : p \in {<<>>, <<nA>>, <<nB>>, <<nX>>, <<nA, nB>>, <<nId>>, <<nPrivate>>,
                       <<nModules>>, <<nA, <<"[", "id">> >>}}
        \cup {nX}

MethodSuffixes == {<<>>, <<":", "post">>}

\* every path with and without a method, and one input with a method that is none
CreateInputs ==
    {p \o m : p \in PathInputs, m \in MethodSuffixes} \cup {typed(<<nA>>) \o <<":", "foo">>}

Choices == {"Merge", "Cancel"}

(***************************************************************************)
(* The state machine                                                       *)
(***************************************************************************)
Nodes == {routes[i] : i \in 1..Len(routes)}

\* what the last command was given and what it reported
Report(op, input, node, choice, r) ==
    [op |-> op, input |-> input, node |-> node, choice |-> choice,
     outcome |-> r.outcome, target |-> r.target]

\* the constructor: findAppDirectory, then scanAllRoutes (lines 1117-1120)
Init ==
    \E tree \in InitialTrees :
        /\ dirs = tree.dirs
        /\ files = tree.files
        /\ routes = scanAllRoutes(tree.dirs, tree.files, AppDir)
        /\ pendingDeletes = {}
        /\ last = Report("start", <<>>, NoNode, "", Result(tree.dirs, tree.files, "", FALSE, NoKey))
        /\ deleted = {}
        /\ ops = 0
        /\ watch = WatchStart
        /\ scanned = [dirs |-> tree.dirs, files |-> tree.files]
        /\ provider = [appDirPath |-> findAppDirectory(tree.dirs, tree.files, NoAppDirPath)]

\* what a handler leaves; refreshed is what its closing refreshRoutes command leaves
Leave(r, refreshed) ==
    /\ files' = r.files
    /\ dirs' = IF r.refresh THEN refreshed.dirs ELSE r.dirs
    /\ routes' = IF r.refresh THEN refreshed.routes ELSE routes
    /\ scanned' = IF r.refresh THEN [dirs |-> refreshed.dirs, files |-> r.files] ELSE scanned
    /\ provider' = IF r.refresh
                   THEN [appDirPath |-> findAppDirectory(r.dirs, r.files, provider.appDirPath)]
                   ELSE provider

Finish(r) == Leave(r, refresh(r.dirs, r.files))

fitsMaxLines(F) == \A k \in DOMAIN F : Len(F[k]) <= MaxLines

\* a command ran with result r
Command(op, input, node, choice, r) ==
    /\ fitsMaxLines(r.files)
    /\ Finish(r)
    /\ last' = Report(op, input, node, choice, r)

\* the addRoute command
CreateNewRoute ==
    /\ ops < MaxOps
    /\ \E input \in CreateInputs :
          Command("create", input, NoNode, "", createNewRoute(dirs, files, AppDir, input))
    /\ deleted' = {}
    /\ ops' = ops + 1
    /\ UNCHANGED <<pendingDeletes, watch>>

\* lines 162-171: the dialog opens when the file exists
deleteRouteAsked(D, F, filePath) ==
    Result(D, F, IF filePath \in DOMAIN F THEN "asked" ELSE "not found", FALSE, filePath)

\* the deleteRoute command up to its confirmation dialog (lines 161-171)
DeleteRoute ==
    \E node \in Nodes :
        /\ ops < MaxOps
        /\ Cardinality(pendingDeletes) < MaxPending
        /\ pendingDeletes' = IF node.filePath \in DOMAIN files
                             THEN pendingDeletes \cup {node} ELSE pendingDeletes
        /\ last' = Report("delete", <<>>, node, "", deleteRouteAsked(dirs, files, node.filePath))
        /\ ops' = ops + 1
        /\ UNCHANGED <<dirs, files, routes, deleted, watch, scanned, provider>>

\* a dialog whose every answer deletes
deleteUnconfirmed(D, F, filePath, confirmed) == deleteRouteConfirmed(D, F, filePath)

\* lines 173-217
deleteRouteAnswered(D, F, filePath, confirmed) ==
    IF confirmed THEN deleteRouteConfirmed(D, F, filePath)
    ELSE Result(D, F, "declined", FALSE, filePath)

Answered(node, choice, r) ==
    /\ Command("delete", <<>>, node, choice, r)
    /\ deleted' = IF r.outcome = "deleted" THEN deleted \cup {node.filePath} ELSE deleted

\* the dialog is answered
DeleteAnswer ==
    \E node \in pendingDeletes, confirmed \in BOOLEAN :
        /\ pendingDeletes' = pendingDeletes \ {node}
        /\ Answered(node, IF confirmed THEN "Delete" ELSE "",
                    deleteRouteAnswered(dirs, files, node.filePath, confirmed))
        /\ UNCHANGED <<ops, watch>>

\* lines 505-514: the dialog of renameRoute opens when the target file exists
renameAsks(D, F, node, targetDir) ==
    /\ targetDir # node.filePath[1]
    /\ targetDir \in D
    /\ <<targetDir, node.filePath[2]>> \in DOMAIN F

\* the answers the user can give to renameRoute: none when no dialog opens
ChoicesFor(D, F, appDirPath, node, input) ==
    IF /\ validateRenameInput(input) = ""
       /\ input # node.label
       /\ renameAsks(D, F, node,
                     renameTargetDir(appDirPath, node.filePath[1], node.label, input))
    THEN Choices
    ELSE {""}

\* the renameRoute command
RenameRoute ==
    /\ ops < MaxOps
    /\ \E node \in Nodes, input \in PathInputs :
          \E choice \in ChoicesFor(dirs, files, AppDir, node, input) :
             Command("rename", input, node, choice,
                     renameRoute(dirs, files, AppDir, node, input, choice, "none"))
    /\ deleted' = {}
    /\ ops' = ops + 1
    /\ UNCHANGED <<pendingDeletes, watch>>

\* the refreshRoutes command
RefreshRoutes ==
    /\ Command("refresh", <<>>, NoNode, "", Result(dirs, files, "refreshed", TRUE, NoKey))
    /\ UNCHANGED <<pendingDeletes, deleted, ops, watch>>

Next ==
    \/ CreateNewRoute
    \/ DeleteRoute
    \/ DeleteAnswer
    \/ RenameRoute
    \/ RefreshRoutes

Spec == Init /\ [][Next]_vars

(***************************************************************************)
(* The change notifier's state machine: tools outside the extension change *)
(* the tree under the routing root and the git metadata, the watchers      *)
(* deliver the events, the time passes and the timeouts run refresh.       *)
(***************************************************************************)
WatchInitOn(trees) ==
    \E tree \in trees :
        /\ dirs = tree.dirs
        /\ files = tree.files
        /\ routes = scanAllRoutes(tree.dirs, tree.files, AppDir)
        /\ pendingDeletes = {}
        /\ last = Report("start", <<>>, NoNode, "", Result(tree.dirs, tree.files, "", FALSE, NoKey))
        /\ deleted = {}
        /\ ops = 0
        /\ watch = WatchStart
        /\ scanned = [dirs |-> tree.dirs, files |-> tree.files]
        /\ provider = [appDirPath |-> findAppDirectory(tree.dirs, tree.files, NoAppDirPath)]

WatchInit == WatchInitOn(WatchedTrees)

\* what a tool can do to the handler file at key: write it with a content it does not
\* hold, or remove it (content <<>>)
editsOf(F, key) ==
    {[key |-> key, content |-> c] : c \in {x \in WatchContents : key \notin DOMAIN F \/ F[key] # x}}
        \cup (IF key \in DOMAIN F THEN {[key |-> key, content |-> <<>>]} ELSE {})

edited(F, e) == IF e.content = <<>> THEN unlink(F, e.key) ELSE writeFile(F, e.key, e.content)

eventOf(F, e) ==
    IF e.content = <<>> THEN "onDidDelete"
    ELSE IF e.key \in DOMAIN F THEN "onDidChange" ELSE "onDidCreate"

\* watcher.onDidCreate, onDidChange, onDidDelete (lines 1029-1031): a file under the
\* routing root was written or removed, and the watcher calls debouncedRefresh
OnDidChange ==
    /\ watch.events < MaxEvents
    /\ \E key \in WatchKeys : \E e \in editsOf(files, key) :
          /\ files' = edited(files, e)
          /\ dirs' = mkdirRecursive(dirs, e.key[1])
          /\ last' = Report("watcher", <<>>, NoNode, "",
                            Result(dirs, files, eventOf(files, e), FALSE, e.key))
    /\ watch' = delivered(debouncedRefresh(watch), TRUE)
    /\ UNCHANGED <<routes, pendingDeletes, deleted, ops, scanned, provider>>

\* gitWatcher.onDidChange (lines 1034-1037): .git/HEAD or .git/index changed
GitChange ==
    /\ watch.events < MaxEvents
    /\ watch' = delivered(gitChanged(watch), FALSE)
    /\ last' = Report("gitWatcher", <<>>, NoNode, "",
                      Result(dirs, files, "onDidChange", FALSE, NoKey))
    /\ UNCHANGED <<dirs, files, routes, pendingDeletes, deleted, ops, scanned, provider>>

\* the time passes by one unit: a timeout is pending and none is due yet
TimePasses ==
    /\ watch.timeouts # <<>>
    /\ \A i \in 1..Len(watch.timeouts) : watch.timeouts[i].due > 0
    /\ watch' = elapsed(watch)

Tick ==
    /\ TimePasses
    /\ last' = Report("tick", <<>>, NoNode, "", Result(dirs, files, "", FALSE, NoKey))
    /\ UNCHANGED <<dirs, files, routes, pendingDeletes, deleted, ops, scanned, provider>>

\* the event loop takes a timeout that is due and runs its callback
TimerRuns ==
    \E i \in 1..Len(watch.timeouts) :
        watch.timeouts[i].due = 0 /\ watch' = timedOut(watch, i)

\* the callback of the timeout at index i ran: refreshed is what refresh leaves
Refreshed(i, refreshed) ==
    /\ dirs' = refreshed.dirs
    /\ routes' = refreshed.routes
    /\ watch' = timedOut(watch, i)
    /\ scanned' = [dirs |-> refreshed.dirs, files |-> files]
    /\ provider' = [appDirPath |-> findAppDirectory(dirs, files, provider.appDirPath)]
    /\ last' = Report("timeout", <<>>, NoNode, watch.timeouts[i].by,
                      Result(refreshed.dirs, files, "refreshed", TRUE, NoKey))

\* a timeout that is due runs NextJsRoutesProvider.refresh
TimeoutFires ==
    /\ \E i \in 1..Len(watch.timeouts) :
          /\ watch.timeouts[i].due = 0
          /\ Refreshed(i, refresh(dirs, files))
    /\ UNCHANGED <<files, pendingDeletes, deleted, ops>>

WatchNext ==
    \/ OnDidChange
    \/ GitChange
    \/ Tick
    \/ TimeoutFires

\* the time does not stop, and the event loop runs a timeout that is due
WatchSpec ==
    WatchInit /\ [][WatchNext]_vars /\ WF_watch(TimePasses) /\ WF_watch(TimerRuns)

\* the notifier, and the user who runs the refreshRoutes command at any moment
CatchUpNext ==
    \/ OnDidChange
    \/ GitChange
    \/ Tick
    \/ TimeoutFires
    \/ RefreshRoutes

CatchUpInit == WatchInitOn({OrphanTree})

CatchUpSpec ==
    CatchUpInit /\ [][CatchUpNext]_vars /\ WF_watch(TimePasses) /\ WF_watch(TimerRuns)

(***************************************************************************)
(* The commands under adverse conditions: a manifest of any kind, handler  *)
(* files written by hand, inputs with ".." and with more than one ":", a   *)
(* tool that removes a handler file behind the forest, and calls of fs     *)
(* that throw during a rename.                                             *)
(***************************************************************************)
MaxAdverse == 1     \* mutation commands per behaviour under adverse conditions

\* import 'server-only';
BareImport == Line("import", "bare", <<"server-only">>, "", 0, 0, FALSE, TRUE)

\* import { db } from './lib';
LibImport == Line("import", "from", <<"./lib">>, "", 1, 1, FALSE, TRUE)

\* import { log } from './log';
LogImport == Line("import", "from", <<"./log">>, "", 1, 1, FALSE, TRUE)

\* export const M = () => NextResponse.json({});
ArrowOneLiner(m) == Line("decl", "const", <<m>>, "() => NextResponse.json({})", 1, 1, TRUE, TRUE)

\* the source has an import without "from" and handlers of one line; the target has
\* the import of the generated files
ImportsTree ==
    TreeOf(<<AppDir \o <<nA>>, RouteTs>> :>
               <<BareImport, LibImport, BlankLine, ArrowOneLiner("GET"), ArrowOneLiner("POST")>>
           @@ <<AppDir \o <<nB>>, RouteTs>> :> <<NextImport, BlankLine>> \o FunctionHandler("POST"))

\* the target has no import and its handler starts on the first line
TopTree ==
    TreeOf(<<AppDir \o <<nA>>, RouteTs>> :> <<LibImport, LogImport, ArrowOneLiner("GET")>>
           @@ <<AppDir \o <<nB>>, RouteTs>> :> FunctionHandler("POST"))

NextDependency ==
    Manifest("object", << ("next" :> "14.2.0" @@ "react" :> "18.3.1") >>, <<>>)

NextDevDependency == Manifest("object", <<>>, << ("next" :> "14.2.0") >>)

\* "next": "" (npm reads the empty range as "*")
NextAnyVersion == Manifest("object", << ("next" :> "") >>, <<>>)

NoNext == Manifest("object", << ("react" :> "18.3.1") >>, << <<>> >>)

NullManifest == Manifest("null", <<>>, <<>>)

BrokenManifest == Manifest("syntax error", <<>>, <<>>)

WithManifest(tree, packageJson) ==
    [dirs |-> tree.dirs,
     files |-> writeFile(tree.files, <<WorkspaceRoot, PackageJson>>, <<packageJson>>)]

\* a workspace with a manifest and neither app nor src/app
NoAppProject ==
    [dirs |-> {WorkspaceRoot},
     files |-> (<<WorkspaceRoot, PackageJson>> :> <<NextDependency>>)]

AdverseProjects ==
    {WithManifest(tree, NextDependency) : tree \in {TsPairTree, ImportsTree, TopTree}}
        \cup {WithManifest(TsPairTree, m) :
                 m \in {NextDevDependency, NextAnyVersion, NoNext, NullManifest,
                        BrokenManifest}}
        \cup {TsPairTree, NoAppProject}

\* "/a:get", "/x:post", "/a:foo", "/a:foo:get", "/../x"
AdverseCreateInputs ==
    { typed(<<nA>>) \o <<":", "get">>,
      typed(<<nX>>) \o <<":", "post">>,
      typed(<<nA>>) \o <<":", "foo">>,
      typed(<<nA>>) \o <<":", "foo", ":", "get">>,
      typed(<< <<"..">>, nX >>) }

\* "/b", "/c", "/../x"
AdversePathInputs == {typed(<<nB>>), typed(<<nC>>), typed(<< <<"..">>, nX >>)}

\* activate: the constructor's scan of whatever project the workspace holds
AdverseInit ==
    \E project \in AdverseProjects :
        /\ dirs = project.dirs
        /\ files = project.files
        /\ routes = scanAllRoutes(project.dirs, project.files, AppDir)
        /\ pendingDeletes = {}
        /\ last = Report("start", <<>>, NoNode, "",
                         Result(project.dirs, project.files, "", FALSE, NoKey))
        /\ deleted = {}
        /\ ops = 0
        /\ watch = WatchStart
        /\ scanned = [dirs |-> project.dirs, files |-> project.files]
        /\ provider = [appDirPath |-> findAppDirectory(project.dirs, project.files, NoAppDirPath)]

\* the addRoute command (lines 843-856)
AddRouteCommand ==
    /\ ops < MaxAdverse
    /\ \E input \in AdverseCreateInputs :
          Command("create", input, NoNode, "",
                  guarded(dirs, files, createNewRoute(dirs, files, AppDir, input)))
    /\ deleted' = {}
    /\ ops' = ops + 1
    /\ UNCHANGED <<pendingDeletes, watch>>

\* the renameRoute command (lines 959-983); fault is the call of fs that throws
RenameRouteCommand ==
    /\ ops < MaxAdverse
    /\ \E node \in Nodes, input \in AdversePathInputs, fault \in Faults :
          \E choice \in ChoicesFor(dirs, files, AppDir, node, input) :
             Command("rename", input, node, choice,
                     guarded(dirs, files,
                             renameRoute(dirs, files, AppDir, node, input, choice, fault)))
    /\ deleted' = {}
    /\ ops' = ops + 1
    /\ UNCHANGED <<pendingDeletes, watch>>

\* the deleteRoute command up to its confirmation dialog (lines 934-958, 161-171)
DeleteRouteCommand ==
    \E node \in Nodes :
        /\ ops < MaxAdverse
        /\ Cardinality(pendingDeletes) < MaxPending
        /\ pendingDeletes' = IF isValidNextJsProject(dirs, files)
                                /\ node.filePath \in DOMAIN files
                             THEN pendingDeletes \cup {node} ELSE pendingDeletes
        /\ last' = Report("delete", <<>>, node, "",
                          guarded(dirs, files, deleteRouteAsked(dirs, files, node.filePath)))
        /\ ops' = ops + 1
        /\ UNCHANGED <<dirs, files, routes, deleted, watch, scanned, provider>>

\* a tool outside the extension removes a handler file, and the forest still shows it
ToolRemovesFile ==
    /\ \E node \in Nodes :
          /\ node.filePath \in DOMAIN files
          /\ files' = unlink(files, node.filePath)
          /\ last' = Report("tool", <<>>, node, "",
                            Result(dirs, files, "removed", FALSE, node.filePath))
    /\ UNCHANGED <<dirs, routes, pendingDeletes, deleted, ops, watch, scanned, provider>>

AdverseNext ==
    \/ AddRouteCommand
    \/ RenameRouteCommand
    \/ DeleteRouteCommand
    \/ DeleteAnswer
    \/ ToolRemovesFile

AdverseSpec == AdverseInit /\ [][AdverseNext]_vars

(***************************************************************************)
(* Handler files written by hand: the user writes app/a/route.ts line by   *)
(* line, in every form of declaration, and runs the refreshRoutes command. *)
(* The project also has the Routes a/b and a_b.                            *)
(***************************************************************************)
MaxHand == 3        \* lines of the file written by hand

HandKey == <<AppDir \o <<nA>>, RouteTs>>

\* export async function post(request) {
LowerFunction == Line("decl", "asyncfunction", <<"post">>, "(request) {", 1, 0, FALSE, FALSE)

\* export function get() {}
PlainFunction == Line("decl", "function", <<"get">>, "() {}", 1, 1, FALSE, FALSE)

\* export const post = h; export const GET = h;
TwoOnALine == Line("decl", "const", <<"post", "GET">>, "h", 0, 0, FALSE, TRUE)

\* export const foo = () => NextResponse.json({});
Helper == ArrowOneLiner("foo")

\* the lines the user writes: the five above and below, one not exported, one blank
HandLines ==
    {LowerFunction, PlainFunction, TwoOnALine, Helper, ArrowOneLiner("DELETE"),
     LocalOnly[1], BlankLine}

\* app/a/route.ts, still empty, app/a/b/route.ts and app/a_b/route.ts
HandTree ==
    TreeOf(HandKey :> <<>>
           @@ <<AppDir \o <<nA, nB>>, RouteTs>> :> generateRouteFile(<<"GET">>, "ts")
           @@ <<AppDir \o << <<"a", "_", "b">> >>, RouteTs>> :> generateRouteFile(<<"GET">>, "ts"))

\* the constructor's scan of the project
HandInit == WatchInitOn({HandTree})

\* the user appends a line to the file and saves it
EditorAppends ==
    /\ Len(files[HandKey]) < MaxHand
    /\ \E line \in HandLines :
          /\ files' = writeFile(files, HandKey, Append(files[HandKey], line))
          /\ last' = Report("tool", <<>>, NoNode, "",
                            Result(dirs, files, "written", FALSE, HandKey))
    /\ UNCHANGED <<dirs, routes, pendingDeletes, deleted, ops, watch, scanned, provider>>

HandNext ==
    \/ EditorAppends
    \/ RefreshRoutes

HandSpec == HandInit /\ [][HandNext]_vars

(***************************************************************************)
(* The routing root: workspaces with app, with src/app, with both and with *)
(* neither, tools that remove a routing root with all it holds or make     *)
(* one, the watchers' timeouts, and the commands of the user.              *)
(***************************************************************************)
\* src/app/a/route.ts and no app
SrcAppOnly ==
    [dirs |-> mkdirRecursive({}, SrcAppDir \o <<nA>>),
     files |-> (<<SrcAppDir \o <<nA>>, RouteTs>> :> generateRouteFile(<<"GET">>, "ts"))]

\* app/a/route.ts, app/b/route.ts and src/app/a/route.ts
BothRoots ==
    [dirs |-> TsPairTree.dirs \cup SrcAppOnly.dirs, files |-> TsPairTree.files @@ SrcAppOnly.files]

RootProjects ==
    {WithManifest(tree, NextDependency) : tree \in {TsPairTree, SrcAppOnly, BothRoots}}
        \cup {NoAppProject}

RootDirs == {AppDir, SrcAppDir}

\* "/a:get", "/x:post"
RootCreateInputs == {typed(<<nA>>) \o <<":", "get">>, typed(<<nX>>) \o <<":", "post">>}

\* activate (lines 720-752): the constructor looks the routing root up and scans, and
\* the watchers are set up in a valid project only
RootInit ==
    \E project \in RootProjects :
        /\ dirs = project.dirs
        /\ files = project.files
        /\ provider = [appDirPath |-> findAppDirectory(project.dirs, project.files, NoAppDirPath)]
        /\ routes = scanFrom(project.dirs, project.files,
                             findAppDirectory(project.dirs, project.files, NoAppDirPath))
        /\ pendingDeletes = {}
        /\ last = Report("start", <<>>, NoNode, "",
                         Result(project.dirs, project.files, "", FALSE, NoKey))
        /\ deleted = {}
        /\ ops = 0
        /\ watch = [WatchStart EXCEPT
                      !.watching = isValidNextJsProject(project.dirs, project.files)]
        /\ scanned = [dirs |-> project.dirs, files |-> project.files]

\* the watcher of "**/{app,src/app}/**", when set up, calls debouncedRefresh
rootChanged(w) ==
    IF w.watching THEN delivered(debouncedRefresh(w), TRUE)
    ELSE [w EXCEPT !.events = w.events + 1]

\* a tool outside the extension removes a routing root with all it holds
ToolRemovesRoot ==
    /\ watch.events < MaxEvents
    /\ \E root \in RootDirs \cap dirs :
          /\ dirs' = {d \in dirs : ~startsWith(d, root)}
          /\ files' = [k \in {j \in DOMAIN files : ~startsWith(j[1], root)} |-> files[k]]
          /\ last' = Report("tool", <<>>, NoNode, "",
                            Result(dirs, files, "removed", FALSE, <<root, <<>> >>))
    /\ watch' = rootChanged(watch)
    /\ UNCHANGED <<routes, pendingDeletes, deleted, ops, scanned, provider>>

\* a tool outside the extension makes a routing root with one handler file
ToolMakesRoot ==
    /\ watch.events < MaxEvents
    /\ \E root \in RootDirs \ dirs :
          /\ dirs' = mkdirRecursive(dirs, root \o <<nA>>)
          /\ files' = writeFile(files, <<root \o <<nA>>, RouteTs>>,
                                generateRouteFile(<<"GET">>, "ts"))
          /\ last' = Report("tool", <<>>, NoNode, "",
                            Result(dirs, files, "made", FALSE, <<root, <<>> >>))
    /\ watch' = rootChanged(watch)
    /\ UNCHANGED <<routes, pendingDeletes, deleted, ops, scanned, provider>>

\* a timeout that is due runs NextJsRoutesProvider.refresh
RootTimeoutFires ==
    /\ \E i \in 1..Len(watch.timeouts) :
          /\ watch.timeouts[i].due = 0
          /\ Refreshed(i, refreshProvider(dirs, files, provider.appDirPath))
    /\ UNCHANGED <<files, pendingDeletes, deleted, ops>>

\* a command of registerAllCommands ran with result r; its closing refreshRoutes command
\* is refused like any command outside a valid project (lines 812-818)
RootCommand(op, input, r) ==
    /\ fitsMaxLines(r.files)
    /\ Leave([r EXCEPT !.refresh = r.refresh /\ isValidNextJsProject(r.dirs, r.files)],
             refreshProvider(r.dirs, r.files, provider.appDirPath))
    /\ last' = Report(op, input, NoNode, "", r)

\* the refreshRoutes command (lines 812-818)
RootRefreshRoutes ==
    /\ RootCommand("refresh", <<>>,
                   guarded(dirs, files, Result(dirs, files, "refreshed", TRUE, NoKey)))
    /\ UNCHANGED <<pendingDeletes, deleted, ops, watch>>

\* lines 848-854: createNewRoute with the provider's routing root, when it has one
addRoute(D, F, root, input) ==
    IF root = NoAppDirPath THEN Result(D, F, "app directory not found", FALSE, NoKey)
    ELSE createNewRoute(D, F, root, input)

\* the addRoute command (lines 843-856)
RootAddRoute ==
    /\ ops < MaxAdverse
    /\ \E input \in RootCreateInputs :
          RootCommand("create", input,
                      guarded(dirs, files, addRoute(dirs, files, provider.appDirPath, input)))
    /\ deleted' = {}
    /\ ops' = ops + 1
    /\ UNCHANGED <<pendingDeletes, watch>>

RootNext ==
    \/ ToolRemovesRoot
    \/ ToolMakesRoot
    \/ Tick
    \/ RootTimeoutFires
    \/ RootRefreshRoutes
    \/ RootAddRoute

RootSpec == RootInit /\ [][RootNext]_vars

(***************************************************************************)
(* The loop of rescan and cleanup: the directories that refresh removes    *)
(* lie under the glob of the watcher of the routing root (line 1014), so   *)
(* every rmdirSync of cleanupOrphanedDirectories (line 332) comes back as  *)
(* an onDidDelete event, which calls debouncedRefresh (line 1031).         *)
(***************************************************************************)
LoopDirs == {AppDir \o <<nA, nC>>, AppDir \o <<nC, nId>>}

\* the onDidDelete events that a refresh causes: one for each directory it removed
deleteEvents(before, after) == Cardinality(before \ after)

\* n more events wait for delivery
echoed(w, n) == [w EXCEPT !.echo = w.echo + n]

\* a tool makes an empty directory under the routing root: watcher.onDidCreate
ToolMakesDirectory ==
    /\ watch.events < MaxEvents
    /\ \E d \in LoopDirs :
          /\ d \notin dirs
          /\ dirs' = mkdirRecursive(dirs, d)
          /\ last' = Report("watcher", <<>>, NoNode, "",
                            Result(dirs, files, "onDidCreate", FALSE, <<d, <<>>>>))
    /\ watch' = delivered(debouncedRefresh(watch), TRUE)
    /\ UNCHANGED <<files, routes, pendingDeletes, deleted, ops, scanned, provider>>

\* the watcher delivers the event of a directory that refresh removed
EchoArrives ==
    /\ watch.echo > 0
    /\ watch' = [delivered(debouncedRefresh(watch), TRUE) EXCEPT
                    !.events = watch.events, !.echo = watch.echo - 1]

OnDidDeleteDirectory ==
    /\ EchoArrives
    /\ last' = Report("watcher", <<>>, NoNode, "",
                      Result(dirs, files, "onDidDelete", FALSE, NoKey))
    /\ UNCHANGED <<dirs, files, routes, pendingDeletes, deleted, ops, scanned, provider>>

\* the event loop runs a timeout that is due, and its refresh removes n directories
LoopTimerRuns ==
    \E i \in 1..Len(watch.timeouts) : \E n \in 0..Cardinality(dirs) :
        watch.timeouts[i].due = 0 /\ watch' = echoed(timedOut(watch, i), n)

LoopRefreshed(i, refreshed) ==
    /\ dirs' = refreshed.dirs
    /\ routes' = refreshed.routes
    /\ watch' = echoed(timedOut(watch, i), deleteEvents(dirs, refreshed.dirs))
    /\ scanned' = [dirs |-> refreshed.dirs, files |-> files]
    /\ provider' = [appDirPath |-> findAppDirectory(dirs, files, provider.appDirPath)]
    /\ last' = Report("timeout", <<>>, NoNode, watch.timeouts[i].by,
                      Result(refreshed.dirs, files, "refreshed", TRUE, NoKey))

LoopTimeoutFires ==
    /\ \E i \in 1..Len(watch.timeouts) :
          /\ watch.timeouts[i].due = 0
          /\ LoopRefreshed(i, refresh(dirs, files))
    /\ UNCHANGED <<files, pendingDeletes, deleted, ops>>

\* the refreshRoutes command, a bounded number of times
LoopRefreshRoutes ==
    /\ ops < MaxOps
    /\ Command("refresh", <<>>, NoNode, "", Result(dirs, files, "refreshed", TRUE, NoKey))
    /\ ops' = ops + 1
    /\ watch' = echoed(watch, deleteEvents(dirs, refresh(dirs, files).dirs))
    /\ UNCHANGED <<pendingDeletes, deleted>>

LoopNext ==
    \/ ToolMakesDirectory
    \/ OnDidDeleteDirectory
    \/ Tick
    \/ LoopTimeoutFires
    \/ LoopRefreshRoutes

LoopInit == WatchInitOn({OrphanTree})

\* the time does not stop, the watcher delivers its events, and the event loop runs a
\* timeout that is due
LoopSpec ==
    /\ LoopInit
    /\ [][LoopNext]_vars
    /\ WF_watch(TimePasses)
    /\ WF_watch(EchoArrives)
    /\ WF_watch(LoopTimerRuns)

(***************************************************************************)
(* Several calls of deleteRoute in flight: every call awaits its own       *)
(* confirmation dialog (line 167), so the same Route can have more than    *)
(* one dialog open, and renameRoute can run before a dialog is answered.   *)
(* Here pendingDeletes holds one record per call, the node and the number  *)
(* of the call.                                                            *)
(***************************************************************************)
MaxDialogs == 2     \* calls of deleteRoute awaiting their confirmation at a time

DialogTrees == {DeepTree, OrphanTree}

\* the deleteRoute command up to its confirmation dialog (lines 161-171)
DialogOpens ==
    \E node \in Nodes :
        /\ ops < MaxOps
        /\ Cardinality(pendingDeletes) < MaxDialogs
        /\ pendingDeletes' = IF node.filePath \in DOMAIN files
                             THEN pendingDeletes \cup {[node |-> node, call |-> ops + 1]}
                             ELSE pendingDeletes
        /\ last' = Report("delete", <<>>, node, "", deleteRouteAsked(dirs, files, node.filePath))
        /\ ops' = ops + 1
        /\ UNCHANGED <<dirs, files, routes, deleted, watch, scanned, provider>>

\* a dialog is answered (lines 173-217)
DialogAnswered ==
    \E d \in pendingDeletes, confirmed \in BOOLEAN :
        /\ pendingDeletes' = pendingDeletes \ {d}
        /\ Answered(d.node, IF confirmed THEN "Delete" ELSE "",
                    deleteRouteAnswered(dirs, files, d.node.filePath, confirmed))
        /\ UNCHANGED <<ops, watch>>

DialogNext ==
    \/ DialogOpens
    \/ DialogAnswered
    \/ RenameRoute

DialogInit == WatchInitOn(DialogTrees)

DialogSpec == DialogInit /\ [][DialogNext]_vars

(***************************************************************************)
(* Properties                                                              *)
(***************************************************************************)
\* the segments of a logical path, whether or not it is written with "/" in front
segmentsOf(routePath) == filterBoolean(split(routePath, "/"))

\* the lines of a content that declare the method, as the scanner reads them
declarationsOf(content, method) ==
    {i \in 1..Len(content) : firstMethodOn(content[i]) = method}

\* the methods a content declares, as the scanner reads it
methodsOf(content) == {firstMethodOn(content[i]) : i \in 1..Len(content)} \ {""}

\* the methods of a Route of the forest
handlersOf(node) == {node.methods[i].method : i \in 1..Len(node.methods)}

\* the step is a run of the addRoute command
CreateStep == last'.op = "create" /\ ops' = ops + 1

\* the step is a run of the renameRoute command
RenameStep == last'.op = "rename" /\ ops' = ops + 1

\* the step is a confirmed deleteRoute that removed its file
DeleteStep ==
    last'.op = "delete" /\ pendingDeletes' # pendingDeletes /\ last'.outcome = "deleted"

\* the step is a run of the refreshRoutes command
RefreshStep == last'.op = "refresh"

\* the forest holds a Route at the logical path
RouteAt(forest, routePath) ==
    \E i \in 1..Len(forest) : segmentsOf(forest[i].label) = segmentsOf(routePath)

\* C1: for every well-formed path p and recognised method m (GET when omitted),
\* Create(p, m) on a root with no handler at p, followed by the scan, yields a Route
\* whose logical path equals the input path p and whose handlers are exactly {m}.
C1_CreateThenScan ==
    [][(/\ CreateStep
        /\ last'.outcome = "created"
        /\ ~RouteAt(routes, parsedRoutePath(last'.input)))
       => \E i \in 1..Len(routes') :
             /\ routes'[i].label = parsedRoutePath(last'.input)
             /\ handlersOf(routes'[i]) = {parsedMethod(last'.input)[1]}]_vars

\* C2: after Create(p, m) returns, whatever the handler file was before, the file
\* declares exactly one handler for m.
C2_ExactlyOneHandler ==
    [][(CreateStep /\ last'.outcome \in {"created", "method already exists"})
       => Cardinality(declarationsOf(files'[last'.target],
                                     parsedMethod(last'.input)[1])) = 1]_vars

\* C3: Create(p, m) on a handler file that already declares m, in any form the scanner
\* recognises, reports "method already exists" and leaves the file's content unchanged.
C3_AlreadyDeclared ==
    [][(/\ CreateStep
        /\ last'.target \in DOMAIN files
        /\ declarationsOf(files[last'.target], parsedMethod(last'.input)[1]) # {})
       => (last'.outcome = "method already exists" /\ files' = files)]_vars

\* C4: a Route renamed onto a logical path whose handler file exists, the merge being
\* confirmed, leaves the target declaring every method of the source and of the target,
\* the source file gone, and no Route of the source file in the forest.
C4_MergeKeepsAllMethods ==
    [][(/\ RenameStep
        /\ last'.choice = "Merge"
        /\ last'.target \in DOMAIN files
        /\ last'.target # last'.node.filePath
        /\ last'.node.filePath \in DOMAIN files)
       => /\ last'.target \in DOMAIN files'
          /\ methodsOf(files[last'.node.filePath]) \cup methodsOf(files[last'.target])
                \subseteq methodsOf(files'[last'.target])
          /\ last'.node.filePath \notin DOMAIN files'
          /\ \A i \in 1..Len(routes') : routes'[i].filePath # last'.node.filePath]_vars

\* the path names no system directory
namesNoSystemDir(routePath) ==
    \A n \in 1..Len(segmentsOf(routePath)) : segmentsOf(routePath)[n] \notin SystemDirs

\* C5: for a Route at p and a well-formed path q other than p, of any depth (here: q
\* naming no system directory), whose target file is absent, the forest after Rename
\* holds no Route at p and a Route at q with the same handlers.
C5_RenameMovesRoute ==
    [][(/\ RenameStep
        /\ validateRenameInput(last'.input) = ""
        /\ namesNoSystemDir(last'.input)
        /\ segmentsOf(last'.input) # segmentsOf(last'.node.label)
        /\ last'.target \notin DOMAIN files
        /\ ~RouteAt(routes, last'.input))
       => /\ ~RouteAt(routes', last'.node.label)
          /\ \E i \in 1..Len(routes') :
                /\ segmentsOf(routes'[i].label) = segmentsOf(last'.input)
                /\ handlersOf(routes'[i]) = handlersOf(last'.node)]_vars

\* C6: Rename of a Route with Group directories on its path leaves every Group
\* directory on the target's path, in the same place, and the other directories of the
\* target are the segments of the new logical path in their order.
C6_GroupsStayInPlace ==
    [][(/\ RenameStep
        /\ last'.outcome \in {"moved", "merged"}
        /\ \E i \in 1..Len(last'.node.filePath[1]) : isGroup(last'.node.filePath[1][i]))
       => /\ \A i \in 1..Len(last'.node.filePath[1]) :
                isGroup(last'.node.filePath[1][i])
                => /\ i <= Len(last'.target[1])
                   /\ last'.target[1][i] = last'.node.filePath[1][i]
          /\ SelectSeq(SubSeq(last'.target[1], Len(AppDir) + 1, Len(last'.target[1])),
                       LAMBDA n : ~isGroup(n)) = segmentsOf(last'.input)]_vars

\* C7: when the target file of a Rename exists and the caller does not choose Merge,
\* no file changes and no directory is created or removed.
C7_DeclinedMergeChangesNothing ==
    [][(/\ RenameStep
        /\ last'.target \in DOMAIN files
        /\ last'.target # last'.node.filePath
        /\ last'.choice # "Merge")
       => (files' = files /\ dirs' = dirs)]_vars

C7_Witness ==
    /\ last.op = "rename"
    /\ last.choice = "Cancel"
    /\ last.target \in DOMAIN files
    /\ last.target # last.node.filePath
    /\ last.node.filePath \in DOMAIN files

\* C8: once a confirmed Delete has removed a handler file, no scan reports a Route of
\* that file as long as no Create or Rename has run since.
C8_DeletedRouteStaysGone ==
    \A k \in deleted : \A i \in 1..Len(routes) : routes[i].filePath # k

C8_Witness == deleted # {} /\ last.op = "refresh" /\ routes # <<>>

\* the directories from dir up to, not including, the routing root
ancestorsOf(dir) == {SubSeq(dir, 1, n) : n \in (Len(AppDir) + 1)..Len(dir)}

\* the directory held nothing but the removed file or the next directory on the path
\* to it
heldOnlyThePath(D, F, d, filePath) ==
    /\ fileNames(F, d) \subseteq (IF d = filePath[1] THEN {filePath[2]} ELSE {})
    /\ childDirs(D, d) \subseteq (IF d = filePath[1] THEN {} ELSE {filePath[1][Len(d) + 1]})

\* C9: after a successful Delete or Rename every ancestor of the removed file left
\* empty is gone, the directories removed are ancestors that held nothing else (the
\* pruning stops at the first non-empty one), and the routing root stays.
C9_PruningStopsAtNonEmpty ==
    [][(DeleteStep \/ (RenameStep /\ last'.outcome \in {"moved", "merged"}))
       => /\ \A d \in ancestorsOf(last'.node.filePath[1]) :
                d \in dirs' => ~isEmptyDir(dirs', files', d)
          /\ \A d \in dirs \ dirs' :
                /\ d \in ancestorsOf(last'.node.filePath[1])
                /\ heldOnlyThePath(dirs, files, d, last'.node.filePath)
          /\ AppDir \in dirs'
          /\ WorkspaceRoot \in dirs']_vars

\* C10: a rescan started by the refresh command creates, deletes or modifies no file
\* and no directory.
C10_ScanIsReadOnly == [][RefreshStep => (dirs' = dirs /\ files' = files)]_vars

\* the directories of a handler file below the routing root, outermost first
dirsBelowRoot(filePath) == SubSeq(filePath[1], Len(AppDir) + 1, Len(filePath[1]))

\* the file is a handler file in a directory under the routing root that the walk is
\* meant to reach: no directory on the way is private or a system directory
routable(key) ==
    /\ isRouteFile(key[2])
    /\ startsWith(key[1], AppDir)
    /\ \A i \in 1..Len(dirsBelowRoot(key)) : ~skippedDir(dirsBelowRoot(key)[i])

\* the forest holds a Route of the file
RouteOf(forest, key) == \E i \in 1..Len(forest) : forest[i].filePath = key

\* C11: after every scan, a handler file in a non-private, non-system directory under
\* the routing root has a Route in the forest if and only if it exists and declares at
\* least one recognised handler; no Route is of a file that does not exist.
C11_RouteIffHandlers ==
    /\ \A key \in DOMAIN files :
          routable(key) => (RouteOf(routes, key) <=> methodsOf(files[key]) # {})
    /\ \A i \in 1..Len(routes) : routes[i].filePath \in DOMAIN files

\* C12: every Route of the forest owns at most one Handler per method name.
C12_OneHandlerPerMethod ==
    \A r \in Nodes : \A i, j \in 1..Len(r.methods) :
        r.methods[i].method = r.methods[j].method => i = j

\* the names among them that are no Group directory
nonGroups(names) == SelectSeq(names, LAMBDA n : ~isGroup(n))

\* C13: the segments of every Route's logical path are the directories of its handler
\* file that are no Group directory, in their order: a Group directory adds nothing,
\* at any nesting depth.
C13_GroupsNotInPath ==
    \A r \in Nodes :
        /\ segmentsOf(r.label) = nonGroups(dirsBelowRoot(r.filePath))
        /\ \A n \in 1..Len(segmentsOf(r.label)) : ~isGroup(segmentsOf(r.label)[n])

C13_Witness ==
    \E r \in Nodes :
        /\ last.op = "rename"
        /\ last.outcome = "moved"
        /\ r.filePath = last.target
        /\ Len(dirsBelowRoot(r.filePath)) = 3
        /\ isGroup(dirsBelowRoot(r.filePath)[1])
        /\ isGroup(dirsBelowRoot(r.filePath)[2])
        /\ Len(segmentsOf(r.label)) = 1

\* the handler file lies below a directory of that kind, n levels under the root
liesBelow(key, n, isKind(_)) ==
    /\ isRouteFile(key[2])
    /\ startsWith(key[1], AppDir)
    /\ Len(dirsBelowRoot(key)) >= n
    /\ \E i \in 1..Len(dirsBelowRoot(key)) : isKind(dirsBelowRoot(key)[i])

isSystemDir(name) == name \in SystemDirs

\* C14: no Route of the forest has a handler file with an ancestor directory below the
\* routing root that is private ("_" in front) or a system directory, at any depth.
C14_SkippedDirsHaveNoRoutes ==
    \A r \in Nodes : \A i \in 1..Len(dirsBelowRoot(r.filePath)) :
        /\ ~isPrivate(dirsBelowRoot(r.filePath)[i])
        /\ ~isSystemDir(dirsBelowRoot(r.filePath)[i])

C14_Witness ==
    /\ last.op = "create"
    /\ \E key \in DOMAIN files :
          liesBelow(key, 2, isPrivate) /\ methodsOf(files[key]) # {}
    /\ \E key \in DOMAIN files :
          liesBelow(key, 1, isSystemDir) /\ methodsOf(files[key]) # {}

\* the display tokens of the non-Group directories of a handler file
displayTokens(filePath) ==
    [n \in 1..Len(nonGroups(dirsBelowRoot(filePath))) |->
        segmentName(nonGroups(dirsBelowRoot(filePath))[n])]

\* C15: the logical path of every Route is "/" followed by the display tokens of its
\* non-Group directories joined by "/", the root route being "/".
C15_RenderedPath ==
    \A r \in Nodes : r.label = typed(displayTokens(r.filePath))

\* the kind of the segment a directory name makes, by the branch of the walk that
\* takes it (lines 1216-1257); a name none of the bracket shapes fits is Static
classify(name) ==
    IF skippedDir(name) THEN "Private"
    ELSE IF isGroup(name) THEN "Group"
    ELSE IF startsWith(name, <<"[", "...">>) /\ endsWith(name, <<"]">>) THEN "CatchAll"
    ELSE IF startsWith(name, <<"[", "[", "...">>) /\ endsWith(name, <<"]", "]">>)
    THEN "OptionalCatchAll"
    ELSE IF startsWith(name, <<"[">>) /\ endsWith(name, <<"]">>) THEN "Dynamic"
    ELSE "Static"

\* some directory of the path classifies as one of the kinds
someKind(names, kinds) == \E n \in 1..Len(names) : classify(names[n]) \in kinds

\* C16: a Route's kind is CatchAll if and only if some directory on its path classifies
\* as CatchAll or OptionalCatchAll, Dynamic if and only if some directory classifies as
\* Dynamic and none as CatchAll or OptionalCatchAll, and Static if and only if no
\* directory classifies as a parameter segment (a malformed bracket shape is Static).
C16_RouteKind ==
    \A r \in Nodes :
        /\ r.routeType = "catchAll"
              <=> someKind(dirsBelowRoot(r.filePath), {"CatchAll", "OptionalCatchAll"})
        /\ r.routeType = "dynamic"
              <=> /\ someKind(dirsBelowRoot(r.filePath), {"Dynamic"})
                  /\ ~someKind(dirsBelowRoot(r.filePath), {"CatchAll", "OptionalCatchAll"})
        /\ r.routeType = "static"
              <=> ~someKind(dirsBelowRoot(r.filePath),
                            {"Dynamic", "CatchAll", "OptionalCatchAll"})

\* the timeouts of debouncedRefresh that are pending
pendingApp(w) == SelectSeq(w.timeouts, LAMBDA t : t.by = "app")

\* the step delivers an event of the routing root
AppEventStep == last'.op = "watcher" /\ watch'.events = watch.events + 1

\* the step is a rescan run by a timeout of debouncedRefresh
DebouncedStep ==
    last'.op = "timeout" /\ last'.choice = "app" /\ Len(watch'.timeouts) < Len(watch.timeouts)

\* C17: every create, change or delete event under the routing root leaves one delay
\* timer of the debounce, set to the whole window; the debounce runs no rescan before
\* the window has passed since the last such event; it runs at most one rescan after
\* that event, and it does run one once the events have stopped.
C17_DebouncedRescan ==
    /\ [][AppEventStep
          => /\ Len(pendingApp(watch')) = 1
             /\ pendingApp(watch')[1].due = Window]_vars
    /\ [][DebouncedStep => watch.quiet = Window]_vars
    /\ [](watch.debounced <= 1)
    /\ ((watch.appSeen /\ watch.debounced = 0) ~> (watch.debounced = 1))

C17_Witness ==
    /\ watch.burst > 1
    /\ last.op = "timeout"
    /\ last.choice = "app"
    /\ watch.debounced = 1
    /\ watch.timeouts = <<>>

\* C18: the events of the git metadata share the one delay timer with the events of
\* the routing root, so at most one timeout is pending, and after the last event of a
\* burst of either kind the timeouts run one rescan, not more.
C18_GitEventsCoalesced ==
    /\ Len(watch.timeouts) <= 1
    /\ watch.rescans <= 1

\* the forest is in the order of its labels
isSorted(forest) ==
    \A i, j \in 1..Len(forest) : i < j => localeCompare(forest[i].label, forest[j].label) <= 0

\* the forest holds the Routes the walk finds, each once
isComplete(forest, found) ==
    /\ Len(forest) = Len(found)
    /\ {forest[i] : i \in 1..Len(forest)} = {found[i] : i \in 1..Len(found)}

\* C19: whenever the view reads the forest (getChildren), it gets the complete, sorted
\* result of the last finished scan: all the Routes of the tree that scan read, never
\* the emptied or half-built forest of a scan in progress.
C19_ForestOfAFinishedScan ==
    /\ isSorted(getChildren(AppDir, routes))
    /\ isComplete(getChildren(AppDir, routes),
                  findRouteFiles(scanned.dirs, scanned.files, AppDir, <<>>))

C19_Witness ==
    /\ watch.timeouts # <<>>
    /\ \E key \in WatchKeys : RouteOf(getChildren(AppDir, routes), key)
    /\ Len(getChildren(AppDir, routes)) > 1
    /\ files # scanned.files
    /\ routes # scanAllRoutes(dirs, files, AppDir)

\* some "/"-separated segment of the input is private or has unequal numbers of "[" and "]"
hasBadSegment(input) ==
    \E n \in 1..Len(split(input, "/")) :
        \/ startsWith(split(input, "/")[n], <<"_">>)
        \/ occurrences(split(input, "/")[n], "[") # occurrences(split(input, "/")[n], "]")

\* C20: a Create or Rename whose input has a segment with unequal numbers of "[" and
\* "]", or a segment that begins with "_", is rejected, and no directory and no file is
\* created, changed or removed.
C20_BadSegmentRejected ==
    [][((CreateStep \/ RenameStep) /\ hasBadSegment(last'.input))
       => /\ last'.outcome = "rejected"
          /\ dirs' = dirs
          /\ files' = files
          /\ routes' = routes]_vars

C20_Witness ==
    /\ last.op = "create"
    /\ last.outcome = "rejected"
    /\ includes(last.input, <<"[", "id", ":", "post">>)
    /\ hasBadSegment(last.input)

\* the text of an input after its first ":"
methodPartOf(input) == join(Tail(split(input, ":")), ":")

isMethodName(name) == \E m \in MethodSet : name = <<m>>

\* the name declared by the handler that ends the file: the last three lines are the
\* text of generateRouteHandler
writtenMethod(F, key) == F[key][Len(F[key]) - 2].m

\* the step is a run of createNewRoute: the command found a valid project
CreateRan == CreateStep /\ last'.outcome # "project required"

\* C21: Create rejects, before any I/O, every input whose ':METHOD' part is not one of
\* the seven recognised methods; hence the method name Create writes is one of the
\* seven, for every accepted input.
C21_OnlyRecognisedMethods ==
    [][CreateRan =>
          /\ (includes(last'.input, <<":">>)
               /\ ~isMethodName(toUpperCase(methodPartOf(last'.input))))
                 => /\ last'.outcome = "rejected"
                    /\ dirs' = dirs
                    /\ files' = files
          /\ last'.outcome = "created"
                 => isMethodName(writtenMethod(files', last'.target))]_vars

\* a forest as the claim compares it: the logical path and the method set of each Route
forestView(forest) ==
    [i \in 1..Len(forest) |-> [path |-> forest[i].label, methods |-> handlersOf(forest[i])]]

\* no one has changed the tree since the last scan read it
unchangedSinceScan == scanned = [dirs |-> dirs, files |-> files]

\* C22: Scan run twice, with no change of the file system by any other party between
\* the runs, yields forests that are equal by logical path and method set.
C22_ScanIsIdempotent ==
    [][(RefreshStep /\ unchangedSinceScan) => forestView(routes') = forestView(routes)]_vars

\* a refresh ran on the tree that the scan of a mutation command had read, and the
\* forest holds several Routes
C22_Witness ==
    /\ last.op = "refresh"
    /\ ops > 0
    /\ Len(routes) > 1
    /\ \E i \in 1..Len(routes) : Cardinality(handlersOf(routes[i])) > 1

\* the forest is what a scan of the tree on disk yields
forestIsCurrent == routes = scanAllRoutes(dirs, files, AppDir)

declaresNext(member) == member # <<>> /\ "next" \in DOMAIN member[1]

\* a manifest exists at the workspace root, parses, and declares the routing framework
\* as a dependency or a development dependency
manifestDeclaresNext(F) ==
    /\ <<WorkspaceRoot, PackageJson>> \in DOMAIN F
    /\ F[<<WorkspaceRoot, PackageJson>>][1].json = "object"
    /\ \/ declaresNext(F[<<WorkspaceRoot, PackageJson>>][1].dependencies)
       \/ declaresNext(F[<<WorkspaceRoot, PackageJson>>][1].devDependencies)

routingRootExists(D) == AppDir \in D \/ SrcAppDir \in D

\* the last step was a command that asked the project validator
askedValidator == last.op \in {"create", "rename", "delete"}

\* C24: the project validator returns true if and only if a manifest exists at the
\* workspace root, parses, declares the routing framework as a dependency or a
\* development dependency, and a routing root exists at app or src/app; a missing or
\* unparseable manifest yields false, never an error.  (The commands report
\* "project required" exactly when the validator returns false.)
C24_ValidatorVerdict ==
    askedValidator =>
        (last.outcome # "project required"
            <=> (manifestDeclaresNext(files) /\ routingRootExists(dirs)))

\* the step is a rename that found its source file and no file at its target
RenameOntoAbsent ==
    /\ RenameStep
    /\ last'.outcome \in {"moved", "failed to rename"}
    /\ last'.node.filePath \in DOMAIN files
    /\ last'.target \notin DOMAIN files

\* the file at key holds all of what the file at source held
completeCopy(F, key, source) == key \in DOMAIN F /\ F[key] = files[source]

\* C25: in a Rename whose target file is absent, the source file is removed only after
\* the copy has completed: if any step fails the Rename is reported as failed and the
\* source file is still present with its content or the target holds a complete copy,
\* so the handlers are never in neither place.
C25_SourceOutlivesCopy ==
    [][RenameOntoAbsent =>
          /\ last'.node.filePath \notin DOMAIN files'
                 => completeCopy(files', last'.target, last'.node.filePath)
          /\ last'.outcome = "failed to rename"
                 => \/ completeCopy(files', last'.node.filePath, last'.node.filePath)
                    \/ completeCopy(files', last'.target, last'.node.filePath)
          /\ last'.outcome = "moved"
                 => /\ completeCopy(files', last'.target, last'.node.filePath)
                    /\ last'.node.filePath \notin DOMAIN files']_vars

\* copyFileSync threw after it wrote a part of the target: the Rename is reported as
\* failed and the source file is in place
C25_Witness ==
    /\ last.op = "rename"
    /\ last.outcome = "failed to rename"
    /\ last.node.filePath \in DOMAIN files
    /\ last.target \in DOMAIN files
    /\ Len(files[last.target]) < Len(files[last.node.filePath])

\* the step is a rename that merged its source file into the file at its target
MergeStep == RenameStep /\ last'.outcome = "merged"

closesAt(content, j, depth) == depth = 0 \/ j = Len(content)

\* the line where the brace depth returns to zero, depth being the depth before line j
RECURSIVE closingLine(_, _, _)
closingLine(content, j, depth) ==
    IF closesAt(content, j, depth + content[j].open - content[j].close) THEN j
    ELSE closingLine(content, j + 1, depth + content[j].open - content[j].close)

\* the source text of the Handler declared on line i
handlerText(content, i) == SubSeq(content, i, closingLine(content, i, 0))

\* the content holds the text once, and its first line nowhere else
holdsOnce(content, text) ==
    /\ Cardinality({k \in 1..Len(content) : content[k] = text[1]}) = 1
    /\ \E k \in 1..(Len(content) - Len(text) + 1) :
          SubSeq(content, k, k + Len(text) - 1) = text

\* C26: for every Handler declared in the source file (arrow or function form, on one
\* line or several, on any line of the file) whose method is not declared in the
\* target, merge appends exactly the source text of that Handler, from its declaration
\* line through the line where the brace depth returns to zero, no line duplicated or
\* omitted.
C26_MergeAppendsHandlerText ==
    [][MergeStep =>
          \A i \in 1..Len(files[last'.node.filePath]) :
              (/\ firstMethodOn(files[last'.node.filePath][i]) # ""
               /\ ~hasMethodDefinition(files[last'.target],
                                       firstMethodOn(files[last'.node.filePath][i])))
                 => holdsOnce(files'[last'.target],
                              handlerText(files[last'.node.filePath], i))]_vars

\* the lines of a are lines of b, in the same order
RECURSIVE isSubsequence(_, _)
isSubsequence(a, b) ==
    IF Len(a) = 0 THEN TRUE
    ELSE IF Len(b) = 0 THEN FALSE
    ELSE IF Head(a) = Head(b) THEN isSubsequence(Tail(a), Tail(b))
    ELSE isSubsequence(a, Tail(b))

\* the methods that both contents declare
declaredInBoth(source, target) == methodsOf(source) \cap methodsOf(target)

\* the lines of the content that declare the method
declarationLines(content, method) ==
    {content[n] : n \in declarationsOf(content, method)}

\* C27: merge never removes or rewrites text already in the target: for a method
\* declared in both files the target's declaration is kept, the source's version is
\* not added, and the merged file holds exactly one declaration of that method.
C27_MergeKeepsTarget ==
    [][MergeStep =>
          /\ isSubsequence(files[last'.target], files'[last'.target])
          /\ \A m \in declaredInBoth(files[last'.node.filePath], files[last'.target]) :
                /\ Cardinality(declarationsOf(files'[last'.target], m)) = 1
                /\ declarationLines(files'[last'.target], m)
                      = declarationLines(files[last'.target], m)]_vars

\* a merge of a source that declares GET and POST into a target that declared POST in
\* the function form: the merged file declares each once, POST as the target did
C27_Witness ==
    /\ last.op = "rename"
    /\ last.outcome = "merged"
    /\ handlersOf(last.node) = {"GET", "POST"}
    /\ methodsOf(files[last.target]) = {"GET", "POST"}
    /\ \E line \in declarationLines(files[last.target], "POST") : line.form = "asyncfunction"
    /\ \E line \in declarationLines(files[last.target], "GET") : line.form = "const"

\* the content holds the line
holdsLine(content, line) == \E n \in 1..Len(content) : content[n] = line

\* the import lines of the source that the target does not hold, in the source's order
missingImports(source, target) ==
    SelectSeq(source, LAMBDA line : isImport(line) /\ ~holdsLine(target, line))

\* the lines are in the content from line at + 1 on (at counts the lines before them)
insertedAt(content, lines, at) ==
    /\ at + Len(lines) <= Len(content)
    /\ SubSeq(content, at + 1, at + Len(lines)) = lines

\* C28: after merge every import line of the source is present in the target: each
\* source import that the target's text did not hold is inserted directly after the
\* target's last import line, or at the top when the target has no import, and the
\* source imports keep their relative order.
C28_MergeCarriesImports ==
    [][MergeStep =>
          /\ \A n \in 1..Len(files[last'.node.filePath]) :
                isImport(files[last'.node.filePath][n])
                   => holdsLine(files'[last'.target], files[last'.node.filePath][n])
          /\ insertedAt(files'[last'.target],
                        missingImports(files[last'.node.filePath], files[last'.target]),
                        getLastImportIndex(files[last'.target]) + 1)]_vars

\* the step is a call of deleteRoute in a valid project
DeleteCalled ==
    last'.op = "delete" /\ ops' = ops + 1 /\ last'.outcome # "project required"

\* the step is the answer to the confirmation dialog of deleteRoute
DeleteReplied == last'.op = "delete" /\ pendingDeletes' # pendingDeletes /\ ops' = ops

\* nothing on disk is changed and no scan is run
nothingDone ==
    dirs' = dirs /\ files' = files /\ routes' = routes /\ scanned' = scanned

\* C29: Delete changes the file system only when the handler file exists at the time of
\* the call and the caller confirms: when the file is missing a not-found error is
\* reported, when the confirmation is declined nothing is reported, and in both cases
\* no file or directory is changed and no rescan is triggered.
C29_DeleteNeedsFileAndConsent ==
    /\ [][DeleteCalled =>
             /\ nothingDone
             /\ last'.outcome = "not found" <=> last'.node.filePath \notin DOMAIN files
             /\ last'.node.filePath \notin DOMAIN files => pendingDeletes' = pendingDeletes]_vars
    /\ [][DeleteReplied =>
             /\ last'.node \in pendingDeletes
             /\ last'.choice # "Delete" => (last'.outcome = "declined" /\ nothingDone)
             /\ (dirs' # dirs \/ files' # files) => last'.choice = "Delete"]_vars

\* deleteRoute was called for a Route of the forest whose file a tool had removed
C29_Witness ==
    /\ last.op = "delete"
    /\ last.outcome = "not found"
    /\ last.node \in Nodes
    /\ last.node.filePath \notin DOMAIN files
    /\ pendingDeletes = {}

\* the directories that the step made or removed
changedDirs == (dirs' \ dirs) \cup (dirs \ dirs')

\* the files that the step wrote or removed
changedFiles ==
    {k \in DOMAIN files \cup DOMAIN files' :
        k \notin DOMAIN files \/ k \notin DOMAIN files' \/ files'[k] # files[k]}

\* C30: for every validated Create or Rename input, every directory created and every
\* file written or copied lies inside the routing root; no accepted path string makes
\* the operation write or remove anything outside it.
C30_StaysInsideRoutingRoot ==
    [][(CreateStep \/ RenameStep) =>
          /\ \A d \in changedDirs : startsWith(d, AppDir)
          /\ \A k \in changedFiles : startsWith(k[1], AppDir)]_vars

\* the directory that renameRoute computes for the step's input (line 494)
resolvedDir == renameTargetDir(AppDir, last'.node.filePath[1], last'.node.label, last'.input)

\* the step is a Rename with an input the input box accepts, whose new logical path
\* resolves to the directory of the source file
RenameInPlace ==
    /\ RenameStep
    /\ validateRenameInput(last'.input) = ""
    /\ resolvedDir = last'.node.filePath[1]

\* C31: when the new logical path of a Rename resolves to the source's own directory,
\* Rename reports that the location did not change, and no file and no directory is
\* created, copied, merged or deleted.
C31_RenameInPlaceIsReported ==
    [][RenameInPlace
       => (last'.outcome = "same location" /\ files' = files /\ dirs' = dirs)]_vars

\* the routing root of the workspace: app first, then src/app, or none
rootOf(D) ==
    IF AppDir \in D THEN AppDir ELSE IF SrcAppDir \in D THEN SrcAppDir ELSE NoAppDirPath

\* the last step ended with a scan: the constructor's, a timeout's, the refresh
\* command's, or the one that closes a Create
afterScan ==
    \/ last.op \in {"start", "timeout"}
    \/ last.op = "refresh" /\ last.outcome = "refreshed"
    \/ last.op = "create" /\ last.outcome = "created"

\* C32: after every scan or refresh the routing root in use is app when that directory
\* exists, otherwise src/app when that exists, and no root at all when neither exists.
C32_RootInUse == afterScan => provider.appDirPath = rootOf(dirs)

\* the names the line declares, in upper case
declaredNames(line) == {upperTok(line.m[n]) : n \in 1..Len(line.m)}

\* the line holds an exported declaration, in function or assigned-function form, of a
\* recognised method
holdsExportedMethod(line) ==
    /\ line.k = "decl"
    /\ line.form \in {"const", "asyncconst", "function", "asyncfunction"}
    /\ declaredNames(line) \cap MethodSet # {}

\* the Handlers the forest shows for the file
handlersShown(forest, key) ==
    IF \E i \in 1..Len(forest) : forest[i].filePath = key
    THEN (CHOOSE node \in {forest[i] : i \in 1..Len(forest)} : node.filePath = key).methods
    ELSE <<>>

\* hs holds one Handler for every line of the content that holds an exported
\* declaration of a method and none for the others, in the order of the lines, each with
\* the line's number from 0 and a method of HTTP_METHODS that the line declares
extractedAsClaimed(content, hs) ==
    /\ \A i \in 1..Len(content) :
          Cardinality({j \in 1..Len(hs) : hs[j].lineNumber = i - 1})
              = IF holdsExportedMethod(content[i]) THEN 1 ELSE 0
    /\ \A j \in 1..Len(hs) :
          /\ hs[j].lineNumber \in 0..(Len(content) - 1)
          /\ hs[j].method \in MethodSet
          /\ hs[j].method \in declaredNames(content[hs[j].lineNumber + 1])
          /\ \A k \in (j + 1)..Len(hs) : hs[j].lineNumber < hs[k].lineNumber

\* C33: the handler extractor returns one Handler per line that holds an exported
\* declaration of a recognised method (at most one per line), in increasing line order,
\* each with its zero-based line number and its method name in upper case whatever the
\* case used in the source.
C33_OneHandlerPerDeclaringLine ==
    last.op = "refresh" => extractedAsClaimed(files[HandKey], handlersShown(routes, HandKey))

\* a scan of a file with a declaration in lower case and a line of two declarations
C33_Witness ==
    /\ last.op = "refresh"
    /\ \E i, j \in 1..Len(files[HandKey]) :
          files[HandKey][i] = LowerFunction /\ files[HandKey][j] = TwoOnALine
    /\ Len(handlersShown(routes, HandKey)) = 2
    /\ Len(files[HandKey]) = 3

\* the rank of a token by the code unit of its first character: "/" lies after "." and
\* before "[", "_" and the letters
codeUnitOrd(t) == IF t = "/" THEN 2 * tokOrd("...") + 1 ELSE 2 * tokOrd(t)

\* a < b in the lexicographic order of the code units
RECURSIVE codeUnitLess(_, _)
codeUnitLess(a, b) ==
    IF Len(b) = 0 THEN FALSE
    ELSE IF Len(a) = 0 THEN TRUE
    ELSE IF Head(a) # Head(b) THEN codeUnitOrd(Head(a)) < codeUnitOrd(Head(b))
    ELSE codeUnitLess(Tail(a), Tail(b))

\* C34: the forest of every scan is sorted by logical path in the simple lexicographic
\* order of the path string: of two adjacent Routes the first one's path is not greater
\* than the second's.
C34_SortedByPathString ==
    last.op = "refresh"
        => \A i \in 1..(Len(routes) - 1) : ~codeUnitLess(routes[i + 1].label, routes[i].label)

\* the handler files (route.js, route.ts, route.jsx, route.tsx) of the directory
handlerFilesIn(F, d) == {k \in DOMAIN F : k[1] = d /\ isRouteFile(k[2])}

\* C35: starting from a tree in which no directory holds more than one handler file,
\* after any sequence of Create, Delete and Rename no directory under the routing root
\* holds more than one handler file.
C35_OneHandlerFilePerDirectory ==
    \A d \in dirs : startsWith(d, AppDir) => Cardinality(handlerFilesIn(files, d)) <= 1

\* the step is a refresh: the command's, or the callback of a timeout
AnyRefreshStep == last'.op \in {"refresh", "timeout"}

\* a directory under the routing root, none of whose names from the root down is
\* private or a system directory
isPlainDir(d) ==
    /\ startsWith(d, AppDir)
    /\ Len(d) > Len(AppDir)
    /\ \A n \in (Len(AppDir) + 1)..Len(d) : ~isPrivate(d[n]) /\ d[n] \notin SystemDirs

\* C36: the orphan-directory cleanup inside every refresh removes only directories that
\* are empty when removed: never the routing root, a directory holding a handler file or
\* any other entry, or a private or system directory; and it changes no file.
C36_CleanupRemovesOnlyEmpty ==
    [][AnyRefreshStep
       => /\ files' = files
          /\ dirs' \subseteq dirs
          /\ \A d \in dirs \ dirs' :
                /\ isPlainDir(d)
                /\ fileNames(files, d) = {}
                /\ childDirs(dirs', d) = {}]_vars

\* a refresh has removed the empty directory a/c and left the directory of the page,
\* the private directory and the directories of the Routes
C36_Witness ==
    /\ last.op \in {"refresh", "timeout"}
    /\ (AppDir \o <<nA, nC>>) \notin dirs
    /\ {AppDir \o <<nX>>, AppDir \o <<nPrivate, nA>>, AppDir \o <<nA, nB>>} \subseteq dirs
    /\ Len(routes) > 0

\* no timeout is pending and the watcher has no event left to deliver
quiescent == watch.timeouts = <<>> /\ watch.echo = 0

\* C37: the loop rescan -> orphan-directory cleanup -> delete events -> debounced rescan
\* reaches quiescence: once the tools and the user stop, only finitely many rescans fire
\* and eventually no timer is pending; in the tree that a refresh leaves the cleanup
\* finds nothing more to remove, so the rescan that its delete events start causes no
\* further event.
C37_LoopQuiesces ==
    /\ <>[]quiescent
    /\ [][AnyRefreshStep => cleanupOrphanedDirectories(dirs', files', AppDir) = dirs']_vars

\* with no event from outside, the cleanup of the refreshRoutes command removed a/c, its
\* delete event started a debounced rescan, that rescan has run and nothing is pending
C37_Witness ==
    /\ quiescent
    /\ watch.events = 0
    /\ last.op = "timeout"
    /\ last.choice = "app"
    /\ (AppDir \o <<nA, nC>>) \notin dirs

\* a call of deleteRoute opened its dialog, or returned because the file does not exist
DialogAsked == last'.op = "delete" /\ ops' # ops

\* the user confirmed a dialog of deleteRoute
DialogConfirmed == last'.op = "delete" /\ ops' = ops /\ last'.choice = "Delete"

\* C38: Delete checks that the handler file exists before it awaits the confirmation
\* and unlinks it after: when a second Delete or a Rename has removed or moved the file
\* in between, the confirmed Delete reports a failure and removes no file and no
\* directory.
C38_LateDeleteFails ==
    /\ [][DialogAsked =>
             (pendingDeletes' # pendingDeletes <=> last'.node.filePath \in DOMAIN files)]_vars
    /\ [][(DialogConfirmed /\ last'.node.filePath \notin DOMAIN files)
             => /\ last'.outcome = "failed to delete"
                /\ files' = files
                /\ dirs' = dirs
                /\ routes' = routes]_vars

\* two dialogs were open for the same Route: the first confirmation deleted the file,
\* the second one has reported the failure
C38_Witness ==
    /\ last.op = "delete"
    /\ last.choice = "Delete"
    /\ last.outcome = "failed to delete"
    /\ last.node.filePath \in deleted
    /\ pendingDeletes = {}

\* C39: no two Routes in the result of one scan have the same logical path, whatever
\* route-group directories the tree contains.
C39_LogicalPathsAreDistinct ==
    \A i, j \in 1..Len(routes) : i # j => routes[i].label # routes[j].label

====
